---- MODULE Spec2Model ----
(***************************************************************************)
(* Model of the Creative Intelligence Engine (Ads_Automation_python):      *)
(* AtriaScraper.login, AtriaScraper.scrape_all_competitors, the media URL  *)
(* resolver and CreativeIntelligenceEngine.run_full_pipeline.              *)
(*                                                                         *)
(* The browser, the CDN, the speech and LLM services and the file system   *)
(* are the environment: every call into them is a nondeterministic choice  *)
(* among the outcomes the code distinguishes (value, None, exception).     *)
(***************************************************************************)
EXTENDS Integers, Sequences, FiniteSets, TLC

(***************************************************************************)
(* Bounds of the model                                                     *)
(***************************************************************************)
\* largest max_retries argument passed to login() in the login specification
MaxRetriesArg == 3
\* largest number of ads one search_competitor_ads call returns
MaxAdsPerSearch == 2
\* largest number of ads one scrape_all_competitors run collects
MaxTotalAds == 2
\* number of ad cards on the page _collect_ads_from_page works on
MaxCards == 2
\* number of distinct video URLs the CDN serves for one ad
MaxUrlVersions == 2
\* largest number of requests one hover or click makes the page issue
MaxRequestsPerTrigger == 1
\* largest number of responses the page is waiting for at one time
MaxInFlight == 2
\* longest ad_text, in characters
MaxTextLen == 3
\* number of ad cards the filtering pass of _collect_ads_from_page goes through
MaxFilterCards == 2
\* number of _send_webhook calls in a row
MaxSends == 2
\* number of POST requests the webhook server receives
MaxRequests == 2
\* number of ads in the latest results file
MaxPendingAds == 2
MaxSheetAds == 2   \* calls of add_ad on one GoogleSheetsManager
\* number of ads whose per-ad result files are in a results directory
MaxStoredAds == 3
\* number of ads in the JSON file given to process_ads_file
MaxFileAds == 3
\* greatest limit given to process_ads_file
MaxLimit == 3
\* calls of update_ad_status
MaxStatusUpdates == 2
\* longest text and suffix, and greatest max_length, given to truncate_text
MaxTruncText == 3
MaxTruncSuffix == 3
MaxTruncLength == 4
\* greatest max_scroll, distinct ad ids on a page, and cards found by one query
MaxScrollArg == 3
MaxPageAds == 2
MaxVisibleCards == 2

(***************************************************************************)
(* Program constants                                                       *)
(***************************************************************************)
\* config/config.py: names of the COMPETITORS entries, in list order
COMPETITORS == <<"ColonBroom", "SkinnyFit", "SereneHerbs">>
\* login(self, max_retries: int = 3)
DefaultMaxRetries == 3
\* asyncio.sleep(3) before a retry after a failed attempt or an exception
RetrySleepSeconds == 3
\* asyncio.sleep(5) before a retry after asyncio.TimeoutError
TimeoutSleepSeconds == 5
\* keys of the ANALYSIS_PROMPTS dictionary
ANALYSIS_PROMPTS == {"hook_analysis", "angle_analysis", "emotional_triggers",
                     "full_analysis", "script_rewrite"}
\* extensions transcribe_ad accepts as media to transcribe
TranscribableExts == {".mp4", ".webm", ".mov", ".avi", ".mp3", ".wav"}
\* extensions download_ad_media gives the file it writes
DownloadExts == {".mp4", ".webm", ".png", ".gif", ".jpg"}

VARIABLES
    \* ---- AtriaScraper.login ----
    loginPc,        \* "idle" | "loop" | "sleep" | "returned"
    max_retries,    \* the max_retries argument
    attempt,        \* the loop variable of `for attempt in range(max_retries)`
    loginHist,      \* outcome of every attempt made so far, in order
    loginSleeps,    \* retry sleeps taken: [after |-> attempt, secs |-> n]
    loginResult,    \* "none" | "True" | "False"
    \* ---- AtriaScraper.scrape_all_competitors ----
    scrapePc,       \* "idle" | "start" | "login" | "search" | "download" | "returned" | "raised"
    loggedIn,       \* value of `await self.login()`: "unknown" | "yes" | "no"
    compIdx,        \* position in `for competitor in COMPETITORS`
    curAds,         \* `ads` returned by search_competitor_ads for the competitor
    adIdx,          \* position in `for ad in ads`
    all_ads,        \* the list being built and returned
    searched,       \* history: the list each search_competitor_ads call returned
    downloadLog,    \* history: what each download_ad_media call returned
    metadata_file,  \* TRUE once scrape_results_*.json has been written
    \* ---- CreativeIntelligenceEngine.run_full_pipeline ----
    pipePc,         \* "idle" | a stage of Stages | "scraping" | "returned" | "propagated"
    competitorsArg, \* the competitors argument: [given |-> BOOLEAN, list |-> names]
    competitors,    \* the local `competitors` of scrape_ads after line 80
    ads,            \* the local `ads` of run_full_pipeline
    batchIdx,       \* loop position inside a *_batch / store_data call, 0 outside
    results,        \* the local `results` of the running *_batch call
    trace,          \* history: [stage, ev] with ev "start" | "return" | "raise"
    sent,           \* history: event names passed to the webhook client
    results_file,   \* pipeline_results_*.json: "none" | "written" | "failed"
    exc,            \* str(e) of the exception that reached the handler, or "none"
    pipeResult,     \* the dictionary run_full_pipeline returned
    \* ---- _collect_ads_from_page, _get_video_url_for_ad, _handle_response ----
    rPc,            \* "idle" | "hover" | "extract" | "method1" | "click" | "click_wait" |
                    \* "dom" | "recheck" | "thumbnail" | "resolved" | "finished"
    thumbnail_url,  \* kind of ad_data['media_url'] of the card being resolved
    captured_video_urls, \* the dict, as its items in insertion order
    inFlight,       \* responses requested by the page and not yet delivered
    lastCaptured,   \* history: the URL stored by the latest _handle_response
    cardIdx,        \* position in the running `for card in ad_cards` loop
    videos_before,  \* the local of _get_video_url_from_click
    methodLog,      \* history: [m, yield, via] of every method run for the card
    video_url,      \* what _get_video_url_for_ad returns for the card
    \* ---- AtriaScraper._extract_video_url_from_thumbnail ----
    tPc,            \* "idle" | "build" | "head" | "returned"
    thumbnail_arg,  \* kind of the thumbnail_url argument
    potential_urls, \* the list of candidate URLs
    headLog,        \* history: [url, answer] of every HEAD request made
    thumbReturn,    \* the value returned: a candidate URL or "None"
    \* ---- AtriaScraper.download_ad_media ----
    dPc,            \* "idle" | "build" | "get" | "write" | "returned"
    media,          \* kind of ad_data's media_url / media_type / video_duration
    urls_to_try,    \* the list of candidate URLs
    getLog,         \* history: [url, answer] of every GET request made
    writeLog,       \* history: [url, ok] of every write of a downloaded file
    media_url_downloaded, \* ad_data['media_url_downloaded'], or Unset
    dlReturn,       \* the value returned: [url, ext] of the file written, or NoFile
    \* ---- _collect_ads_from_page: second pass, with _matches_filter ----
    cPc,            \* "idle" | "card" | "extracted" | "returned"
    filter,         \* competitor['filter']: a keyword, or NoFilter for None
    cardNo,         \* position in `for card in ad_cards`
    ad_data,        \* what _extract_ad_data returned for the card
    collected,      \* the list `ads`
    seen_ids,       \* the set seen_ids
    rejected,       \* history: the ads the filter turned down
    \* ---- MakeWebhookClient._send_webhook ----
    wPc,            \* "idle" | "call" | "entered" | "posted" | "raised"
    wUrl,           \* the url argument
    wPosts,         \* history: the POST requests of the running call, by outcome
    sendLog,        \* history: [url, posts, ret] of every call that returned
    \* ---- create_webhook_server and pipeline_handler ----
    loopRunning,    \* whether the thread serving the views has a running event loop
    pendingAds,     \* ids of the ads in the most recent results file
    responses,      \* history: [endpoint, payload, code, status] of every POST answered
    tasks,          \* coroutines handed to the event loop and not yet run
    runs,           \* history: [req, action, step, ad_ids, processed] of every run made
    \* ---- ClaudeAnalyzer.analyze_ad ----
    aaPc,           \* "idle" | "entered" | "prompt" | "called" | "returned" | "raised"
    analysis_type,  \* the analysis_type argument
    aaTranscript,   \* ad_data['transcript']: "absent" | "empty" | "text"
    aaResponse,     \* what _call_claude_async returned: "unasked" | "none" | "text"
    aaBefore,       \* history: the keys of ad_data['analysis'] at the call
    aaAnalysis,     \* the keys of ad_data['analysis']
    aaFile,         \* whether ad_data['analysis_file'] is set
    aaError,        \* str(e) of the exception analyze_ad raised, or "none"
    \* ---- GoogleDriveManager.upload_ad_media ----
    drPc,           \* "idle" | "entered" | "raw_ads" | "competitor" | "upload" | "returned"
    drAd,           \* the ad: [competitor, has_file_path, file_exists, file_ext]
    drService,      \* whether the Drive service can be initialised
    raw_ads_folder, \* what _get_or_create_folder('Raw Ads') returned, or NoFolder
    competitor_folder, \* what _get_or_create_folder(competitor, raw_ads_folder) returned
    driveFiles,     \* history: [name, parent] of every file created in Drive
    drReturn,       \* the value returned: "None" or "file_id"
    \* ---- GoogleSheetsManager.add_ad ----
    client,         \* self.client is set
    spreadsheet,    \* self.spreadsheet is set
    sheetRows,      \* the rows appended to the first worksheet, in order
    addLog,         \* history: [ret, before, after] of every add_ad call
    \* ---- run_analyze_only / run_rewrite_only without ads_file ----
    oPc,            \* "idle" | "entered" | "loaded" | "returned" | "raised"
    oStep,          \* "analyze" | "rewrite"
    oDir,           \* ids of the ads whose result file is in the directory, in write order
    oAds,           \* what `ads` holds after load_json(...) or []
    oIdx,           \* position of the batch loop in ads
    oResults,       \* the list the batch builds and the call returns
    \* ---- MediaDownloader.process_ads_file ----
    mPc,            \* "idle" | "entered" | "login" | "loop" | "returned"
    mFileAds,       \* the ads of the JSON file: ids, in file order
    mLimit,         \* the limit argument: [given, n]; not given is None
    mAds,           \* the local list `ads`: [id, has_full_path]
    mIdx,           \* position of the download loop
    mVisited,       \* history: ids of the ads whose page download_ad_media opened
    mOutput,        \* the ads_with_media file: <<>> until written, then <<ads>>
    \* ---- GoogleSheetsManager.update_ad_status after add_ad ----
    stRows,         \* the rows of the first worksheet, each a list of cells
    stIds,          \* history: the id of the ad each row was appended for
    stLog,          \* history: [ad_id, status, added, failed, ret, before, after] per update call
    \* ---- sanitize_filename ----
    sfPc,           \* "idle" | "given" | "once" | "twice"
    sfInput,        \* the filename argument, a sequence of characters
    sfOnce,         \* sanitize_filename(filename)
    sfTwice,        \* sanitize_filename(sanitize_filename(filename))
    \* ---- truncate_text ----
    ttPc,           \* "idle" | "given" | "returned"
    ttText,         \* the text argument
    ttMaxLength,    \* the max_length argument
    ttSuffix,       \* the suffix argument
    ttResult,       \* the string returned
    \* ---- the scroll loop of _collect_ads_from_page ----
    scPc,           \* "idle" | "find" | "extract" | "scroll" | "returned" | "raised"
    max_scroll,     \* the argument
    scroll_count,   \* the loop variable of `for scroll_count in range(max_scroll)`
    ad_cards,       \* the cards found in this iteration: the id each one yields
    scCard,         \* position of the second pass in ad_cards
    scAds,          \* the list `ads`: ids of the ads appended
    scSeen,         \* the set seen_ids
    bottomLog       \* history: is_at_bottom of every iteration that ended

loginVars == <<loginPc, max_retries, attempt, loginHist, loginSleeps, loginResult>>
scrapeVars == <<scrapePc, loggedIn, compIdx, curAds, adIdx, all_ads, searched, downloadLog,
                metadata_file>>
pipeVars == <<pipePc, competitorsArg, competitors, ads, batchIdx, results, trace, sent,
              results_file, exc, pipeResult>>
resolverVars == <<rPc, thumbnail_url, captured_video_urls, inFlight, lastCaptured, cardIdx,
                  videos_before, methodLog, video_url>>
thumbVars == <<tPc, thumbnail_arg, potential_urls, headLog, thumbReturn>>
downloadVars == <<dPc, media, urls_to_try, getLog, writeLog, media_url_downloaded, dlReturn>>
collectVars == <<cPc, filter, cardNo, ad_data, collected, seen_ids, rejected>>
webhookVars == <<wPc, wUrl, wPosts, sendLog>>
serverVars == <<loopRunning, pendingAds, responses, tasks, runs>>
adAnalysisVars == <<aaPc, analysis_type, aaTranscript, aaResponse, aaBefore, aaAnalysis, aaFile, aaError>>
driveVars == <<drPc, drAd, drService, raw_ads_folder, competitor_folder, driveFiles, drReturn>>
sheetsVars == <<client, spreadsheet, sheetRows, addLog>>
onlyVars == <<oPc, oStep, oDir, oAds, oIdx, oResults>>
mediaVars == <<mPc, mFileAds, mLimit, mAds, mIdx, mVisited, mOutput>>
statusVars == <<stRows, stIds, stLog>>
sanitizeVars == <<sfPc, sfInput, sfOnce, sfTwice>>
truncateVars == <<ttPc, ttText, ttMaxLength, ttSuffix, ttResult>>
scrollVars == <<scPc, max_scroll, scroll_count, ad_cards, scCard, scAds, scSeen, bottomLog>>
extraVars == <<thumbVars, downloadVars, collectVars, webhookVars, serverVars, adAnalysisVars, driveVars, sheetsVars, onlyVars, mediaVars, statusVars, sanitizeVars, truncateVars, scrollVars>>
otherVars == <<resolverVars, extraVars>>
coreVars == <<loginVars, scrapeVars, pipeVars, extraVars>>
baseVars == <<loginVars, scrapeVars, pipeVars, resolverVars>>
vars == <<loginVars, scrapeVars, pipeVars, resolverVars, extraVars>>
nonLoginVars == <<scrapeVars, pipeVars, otherVars>>

\* a function modelled on its own leaves the variables of the others alone
ExtraUnchangedBut(g) ==
    /\ IF g = "thumb" THEN TRUE ELSE UNCHANGED thumbVars
    /\ IF g = "download" THEN TRUE ELSE UNCHANGED downloadVars
    /\ IF g = "collect" THEN TRUE ELSE UNCHANGED collectVars
    /\ IF g = "webhook" THEN TRUE ELSE UNCHANGED webhookVars
    /\ IF g = "server" THEN TRUE ELSE UNCHANGED serverVars
    /\ IF g = "analysis" THEN TRUE ELSE UNCHANGED adAnalysisVars
    /\ IF g = "drive" THEN TRUE ELSE UNCHANGED driveVars
    /\ IF g = "sheets" THEN TRUE ELSE UNCHANGED sheetsVars
    /\ IF g = "only" THEN TRUE ELSE UNCHANGED onlyVars
    /\ IF g = "media" THEN TRUE ELSE UNCHANGED mediaVars
    /\ IF g = "status" THEN TRUE ELSE UNCHANGED statusVars
    /\ IF g = "sanitize" THEN TRUE ELSE UNCHANGED sanitizeVars
    /\ IF g = "truncate" THEN TRUE ELSE UNCHANGED truncateVars
    /\ IF g = "scroll" THEN TRUE ELSE UNCHANGED scrollVars

Range(s) == {s[i] : i \in 1..Len(s)}

(***************************************************************************)
(* AtriaScraper.login                                                      *)
(***************************************************************************)
\* what one pass through the body of the retry loop can end in
LoginOutcomes == {"ok", "cookies_raise", "still_login", "still_login_shot_raise",
                  "timeout", "exception"}
\* outcomes in which self.page.url did not contain 'login' after the submit
UrlLeftLogin == {"ok", "cookies_raise"}

\* `if attempt < max_retries - 1:` guarding every retry sleep
ShouldSleepBeforeRetry(att, n) == att < n - 1

\* the sleep each handler takes before the next attempt
RetryDelay(outcome) == IF outcome = "timeout" THEN TimeoutSleepSeconds ELSE RetrySleepSeconds

LoginIdle ==
    /\ loginPc = "idle" /\ max_retries = 0 /\ attempt = 0
    /\ loginHist = <<>> /\ loginSleeps = <<>> /\ loginResult = "none"

\* entry into login(max_retries = n)
LoginEnter(n) ==
    /\ loginPc' = "loop"
    /\ max_retries' = n
    /\ attempt' = 0
    /\ loginHist' = <<>>
    /\ loginSleeps' = <<>>
    /\ loginResult' = "none"

\* the frame of login is dropped once the caller has taken the result
LoginLeave ==
    /\ loginPc' = "idle" /\ max_retries' = 0 /\ attempt' = 0
    /\ loginHist' = <<>> /\ loginSleeps' = <<>> /\ loginResult' = "none"

\* end of a failed pass: sleep when another attempt follows, else next iteration
LoginAttemptFailed(outcome) ==
    /\ loginHist' = Append(loginHist, outcome)
    /\ IF ShouldSleepBeforeRetry(attempt, max_retries)
       THEN loginPc' = "sleep" /\ attempt' = attempt
       ELSE loginPc' = "loop" /\ attempt' = attempt + 1
    /\ UNCHANGED <<max_retries, loginSleeps, loginResult>>
    /\ UNCHANGED nonLoginVars

\* URL left the login page and context.cookies() returned: return True
LoginSucceeds ==
    /\ loginPc = "loop" /\ attempt < max_retries
    /\ loginHist' = Append(loginHist, "ok")
    /\ loginResult' = "True"
    /\ loginPc' = "returned"
    /\ UNCHANGED <<max_retries, attempt, loginSleeps>>
    /\ UNCHANGED nonLoginVars

\* URL left the login page but `await self.context.cookies()` raised inside the
\* try: the generic handler treats the attempt as failed
LoginCookiesRaise ==
    /\ loginPc = "loop" /\ attempt < max_retries
    /\ LoginAttemptFailed("cookies_raise")

\* still on the login page; the debugging screenshot may itself raise, which
\* lands in the generic handler
LoginStillOnLoginPage ==
    /\ loginPc = "loop" /\ attempt < max_retries
    /\ \E shotOk \in BOOLEAN :
         LoginAttemptFailed(IF shotOk THEN "still_login" ELSE "still_login_shot_raise")

\* except asyncio.TimeoutError
LoginTimeout ==
    /\ loginPc = "loop" /\ attempt < max_retries
    /\ LoginAttemptFailed("timeout")

\* except Exception (navigation, selector wait, click, typing)
LoginException ==
    /\ loginPc = "loop" /\ attempt < max_retries
    /\ LoginAttemptFailed("exception")

\* the asyncio.sleep before the next attempt
LoginRetrySleep ==
    /\ loginPc = "sleep"
    /\ loginSleeps' = Append(loginSleeps,
                             [after |-> attempt, secs |-> RetryDelay(loginHist[Len(loginHist)])])
    /\ attempt' = attempt + 1
    /\ loginPc' = "loop"
    /\ UNCHANGED <<max_retries, loginHist, loginResult>>
    /\ UNCHANGED nonLoginVars

\* range(max_retries) exhausted: "All login attempts failed", return False
LoginAllFailed ==
    /\ loginPc = "loop" /\ attempt >= max_retries
    /\ loginResult' = "False"
    /\ loginPc' = "returned"
    /\ UNCHANGED <<max_retries, attempt, loginHist, loginSleeps>>
    /\ UNCHANGED nonLoginVars

(***************************************************************************)
(* C6. login(max_retries = n) ends after at most n attempts; it returns    *)
(* True at the first attempt after which the page URL no longer contains   *)
(* 'login' and makes no further attempt; it returns False only after n     *)
(* attempts that each failed; it sleeps before every retry and never after *)
(* the last attempt.                                                       *)
(***************************************************************************)
C6_LoginContract ==
    loginPc = "returned" =>
        /\ Len(loginHist) <= max_retries
        /\ \A i \in 1..Len(loginHist) :
              loginHist[i] \in UrlLeftLogin => (i = Len(loginHist) /\ loginResult = "True")
        /\ loginResult = "False" =>
              /\ Len(loginHist) = max_retries
              /\ \A i \in 1..Len(loginHist) : loginHist[i] # "ok"
        /\ \A j \in 1..Len(loginSleeps) : loginSleeps[j].after < max_retries - 1
        /\ Len(loginSleeps) = (IF loginResult = "True" THEN Len(loginHist) - 1
                               ELSE IF max_retries = 0 THEN 0 ELSE max_retries - 1)


(***************************************************************************)
(* AtriaScraper.scrape_all_competitors                                     *)
(***************************************************************************)
\* the dictionary _extract_ad_data builds ('competitor': competitor['name']);
\* the keys later stages add are carried from the start with their
\* "not there" value
NewAd(c, k) ==
    [competitor |-> c, idx |-> k, local_filepath |-> "none",
     transcript |-> "absent", analysis |-> FALSE, analysis_file |-> FALSE,
     rewritten_script |-> FALSE, script_file |-> FALSE, drive |-> FALSE]

\* variant: the login result is not checked
ProceedAfterLoginUnchecked(result) == TRUE

\* `if not await self.login(): return all_ads`
ProceedAfterLogin(result) == result = "True"

\* variant: only ads whose media was downloaded are appended
KeepAdOnlyWithMedia(all, ad, filepath) ==
    IF filepath # "none" THEN Append(all, [ad EXCEPT !.local_filepath = filepath]) ELSE all

\* body of `for ad in ads`: the ad is appended whether or not a file was
\* written; local_filepath is set only `if filepath`
KeepAd(all, ad, filepath) ==
    Append(all, IF filepath # "none" THEN [ad EXCEPT !.local_filepath = filepath] ELSE ad)

ScrapeIdle ==
    /\ scrapePc = "idle" /\ loggedIn = "unknown" /\ compIdx = 0 /\ curAds = <<>> /\ adIdx = 0
    /\ all_ads = <<>> /\ searched = <<>> /\ downloadLog = <<>> /\ metadata_file = FALSE

\* entry into scrape_all_competitors(): all_ads = []
ScrapeEnter ==
    /\ scrapePc' = "start" /\ loggedIn' = "unknown" /\ compIdx' = 0 /\ curAds' = <<>>
    /\ adIdx' = 0 /\ all_ads' = <<>> /\ searched' = <<>> /\ downloadLog' = <<>>
    /\ metadata_file' = FALSE

\* `await self.login()` with the default max_retries
ScrapeCallLogin ==
    /\ scrapePc = "start"
    /\ LoginEnter(DefaultMaxRetries)
    /\ scrapePc' = "login"
    /\ UNCHANGED <<loggedIn, compIdx, curAds, adIdx, all_ads, searched, downloadLog,
                   metadata_file>>
    /\ UNCHANGED <<pipeVars, otherVars>>

\* login returned False: "Failed to login", return the empty all_ads
ScrapeLoginFailed ==
    /\ scrapePc = "login" /\ loginPc = "returned"
    /\ ~ ProceedAfterLogin(loginResult)
    /\ LoginLeave
    /\ loggedIn' = (IF loginResult = "True" THEN "yes" ELSE "no")
    /\ scrapePc' = "returned"
    /\ UNCHANGED <<compIdx, curAds, adIdx, all_ads, searched, downloadLog, metadata_file>>
    /\ UNCHANGED <<pipeVars, otherVars>>

\* login returned True: start `for competitor in COMPETITORS`
ScrapeLoginOk ==
    /\ scrapePc = "login" /\ loginPc = "returned"
    /\ ProceedAfterLogin(loginResult)
    /\ LoginLeave
    /\ loggedIn' = (IF loginResult = "True" THEN "yes" ELSE "no")
    /\ compIdx' = 1
    /\ scrapePc' = "search"
    /\ UNCHANGED <<curAds, adIdx, all_ads, searched, downloadLog, metadata_file>>
    /\ UNCHANGED <<pipeVars, otherVars>>

\* `ads = await self.search_competitor_ads(competitor)` returns a list: what
\* _collect_ads_from_page collected, or [] after a handled timeout or exception
SearchCompetitorAds ==
    /\ scrapePc = "search" /\ compIdx \in 1..Len(COMPETITORS)
    /\ \E n \in 0..MaxAdsPerSearch :
         /\ Len(all_ads) + n <= MaxTotalAds
         /\ curAds' = [k \in 1..n |-> NewAd(COMPETITORS[compIdx], k)]
    /\ searched' = Append(searched, curAds')
    /\ adIdx' = 1
    /\ scrapePc' = "download"
    /\ UNCHANGED <<loggedIn, compIdx, all_ads, downloadLog, metadata_file>>
    /\ UNCHANGED <<loginVars, pipeVars, otherVars>>

\* the page.screenshot inside an except block of search_competitor_ads raises:
\* nothing catches it, scrape_all_competitors is left by the exception
SearchCompetitorAdsRaises ==
    /\ scrapePc = "search" /\ compIdx \in 1..Len(COMPETITORS)
    /\ scrapePc' = "raised"
    /\ UNCHANGED <<loggedIn, compIdx, curAds, adIdx, all_ads, searched, downloadLog,
                   metadata_file>>
    /\ UNCHANGED <<loginVars, pipeVars, otherVars>>

\* `filepath = await self.download_ad_media(ad)`, which returns the path of the
\* file written or None, then `all_ads.append(ad)`
DownloadAdMedia ==
    /\ scrapePc = "download" /\ adIdx \in 1..Len(curAds)
    /\ \E filepath \in {"none"} \cup DownloadExts :
         /\ all_ads' = KeepAd(all_ads, curAds[adIdx], filepath)
         /\ downloadLog' = Append(downloadLog, filepath)
    /\ adIdx' = adIdx + 1
    /\ UNCHANGED <<scrapePc, loggedIn, compIdx, curAds, searched, metadata_file>>
    /\ UNCHANGED <<loginVars, pipeVars, otherVars>>

\* end of `for ad in ads`: asyncio.sleep(3), next competitor
NextCompetitor ==
    /\ scrapePc = "download" /\ adIdx > Len(curAds)
    /\ compIdx' = compIdx + 1
    /\ scrapePc' = "search"
    /\ UNCHANGED <<loggedIn, curAds, adIdx, all_ads, searched, downloadLog, metadata_file>>
    /\ UNCHANGED <<loginVars, pipeVars, otherVars>>

\* after the loop: write scrape_results_<timestamp>.json and return all_ads
SaveScrapeMetadata ==
    /\ scrapePc = "search" /\ compIdx > Len(COMPETITORS)
    /\ metadata_file' = TRUE
    /\ scrapePc' = "returned"
    /\ UNCHANGED <<loggedIn, compIdx, curAds, adIdx, all_ads, searched, downloadLog>>
    /\ UNCHANGED <<loginVars, pipeVars, otherVars>>

\* aiofiles.open / write of the metadata file raises
SaveScrapeMetadataRaises ==
    /\ scrapePc = "search" /\ compIdx > Len(COMPETITORS)
    /\ scrapePc' = "raised"
    /\ UNCHANGED <<loggedIn, compIdx, curAds, adIdx, all_ads, searched, downloadLog,
                   metadata_file>>
    /\ UNCHANGED <<loginVars, pipeVars, otherVars>>

(***************************************************************************)
(* CreativeIntelligenceEngine.run_full_pipeline and the stages it calls    *)
(***************************************************************************)
\* the statements of the try block, in source order
Stages == <<"initialize", "scrape", "transcribe", "analyze", "rewrite", "store", "save",
            "notify">>

\* variant: the results file is saved before the data is stored
NextStageSaveFirst(s) ==
    CASE s = "initialize" -> "scrape"
      [] s = "scrape"     -> "transcribe"
      [] s = "transcribe" -> "analyze"
      [] s = "analyze"    -> "rewrite"
      [] s = "rewrite"    -> "save"
      [] s = "save"       -> "store"
      [] s = "store"      -> "notify"
      [] OTHER            -> "returned"

\* the statement that follows stage s in the try block
NextStage(s) ==
    CASE s = "initialize" -> "scrape"
      [] s = "scrape"     -> "transcribe"
      [] s = "transcribe" -> "analyze"
      [] s = "analyze"    -> "rewrite"
      [] s = "rewrite"    -> "store"
      [] s = "store"      -> "save"
      [] s = "save"       -> "notify"
      [] OTHER            -> "returned"

\* variant: the handler catches KeyError only
CatchesKeyErrorOnly(e) == e \in {"'hook_variations'", "'full_analysis'", "'script_rewrite'"}

\* `except Exception as e`: every exception the stages raise derives from Exception
Catches(e) == e \in {"Exception", "'hook_variations'", "'full_analysis'", "'script_rewrite'"}

\* variant: the empty list is not singled out
NoAdsScrapedIgnored(a) == FALSE

\* `if not ads:` after scrape_ads
NoAdsScraped(a) == a = <<>>

\* `competitors = competitors or COMPETITORS`
EffectiveCompetitors(arg) == IF arg.given /\ arg.list # <<>> THEN arg.list ELSE COMPETITORS

Ev(s, e) == [stage |-> s, ev |-> e]
StageOf(pc) == IF pc = "scraping" THEN "scrape" ELSE pc
Started(s) == trace # <<>> /\ trace[Len(trace)] = Ev(s, "start")
Notices(n, name) == [i \in 1..n |-> name]
Count(a, P(_)) == Cardinality({i \in 1..Len(a) : P(a[i])})
HasScript(ad) == ad.rewritten_script

\* the summary dictionary of lines 254-262
Summary(a) ==
    [status |-> "complete", total_ads |-> Len(a),
     successful |-> Count(a, HasScript),
     failed |-> Count(a, LAMBDA ad : ~ HasScript(ad)),
     error |-> "none"]

\* the early return of lines 226-230
NoAdsResult == [status |-> "complete", total_ads |-> 0, successful |-> 0, failed |-> 0,
                error |-> "none"]

\* the return of the handler, lines 276-279
ErrorResult(e) == [status |-> "error", total_ads |-> 0, successful |-> 0, failed |-> 0,
                   error |-> e]

PipeIdle ==
    /\ pipePc = "idle" /\ competitorsArg = [given |-> FALSE, list |-> <<>>]
    /\ competitors = <<>> /\ ads = <<>> /\ batchIdx = 0 /\ results = <<>>
    /\ trace = <<>> /\ sent = <<>> /\ results_file = "none" /\ exc = "none"
    /\ pipeResult = [status |-> "none", total_ads |-> 0, successful |-> 0, failed |-> 0,
                     error |-> "none"]

\* exception e leaves stage s: caught by the handler, which returns the error
\* dictionary, or (were it not an Exception) passed on to the caller
Raise(s, e) ==
    /\ trace' = (IF Started(s) THEN trace ELSE Append(trace, Ev(s, "start")))
                    \o <<Ev(s, "raise")>>
    /\ exc' = e
    /\ IF Catches(e)
       THEN pipePc' = "returned" /\ pipeResult' = ErrorResult(e)
       ELSE pipePc' = "propagated" /\ UNCHANGED pipeResult

\* `await self.initialize()`: setup_sheets and setup_folder_structure
PipeInitialize ==
    /\ pipePc = "initialize"
    /\ trace' = trace \o <<Ev("initialize", "start"), Ev("initialize", "return")>>
    /\ pipePc' = NextStage("initialize")
    /\ UNCHANGED <<competitorsArg, competitors, ads, batchIdx, results, sent, results_file,
                   exc, pipeResult>>
    /\ UNCHANGED <<loginVars, scrapeVars, otherVars>>

\* a call into the environment (browser launch or close, file write, API
\* client) raises inside a stage
PipeStageRaises ==
    /\ \/ pipePc \in {"initialize", "scrape", "store"}
       \/ pipePc = "scraping" /\ scrapePc = "returned"
       \/ pipePc \in {"transcribe", "analyze", "rewrite"} /\ batchIdx \in 1..Len(ads)
    /\ Raise(StageOf(pipePc), "Exception")
    /\ UNCHANGED <<competitorsArg, competitors, ads, batchIdx, results, sent, results_file>>
    /\ UNCHANGED <<loginVars, scrapeVars, otherVars>>

\* scrape_ads up to the call of the scraper: the default list replaces a
\* missing or empty argument, the browser starts, scrape_all_competitors() runs
PipeScrapeAds ==
    /\ pipePc = "scrape"
    /\ competitors' = EffectiveCompetitors(competitorsArg)
    /\ trace' = Append(trace, Ev("scrape", "start"))
    /\ ScrapeEnter
    /\ pipePc' = "scraping"
    /\ UNCHANGED <<competitorsArg, ads, batchIdx, results, sent, results_file, exc, pipeResult>>
    /\ UNCHANGED <<loginVars, otherVars>>

\* scrape_all_competitors returned: the browser closes, notify_new_ad goes out
\* for every ad, scrape_ads returns; run_full_pipeline returns at once when
\* the list is empty
PipeScrapeReturns ==
    /\ pipePc = "scraping" /\ scrapePc = "returned"
    /\ ads' = all_ads
    /\ sent' = sent \o Notices(Len(all_ads), "new_ad_scraped")
    /\ trace' = Append(trace, Ev("scrape", "return"))
    /\ IF NoAdsScraped(all_ads)
       THEN pipePc' = "returned" /\ pipeResult' = NoAdsResult
       ELSE pipePc' = NextStage("scrape") /\ UNCHANGED pipeResult
    /\ UNCHANGED <<competitorsArg, competitors, batchIdx, results, results_file, exc>>
    /\ UNCHANGED <<loginVars, scrapeVars, otherVars>>

\* scrape_all_competitors raised: the exception passes `async with` and
\* scrape_ads and reaches the handler
PipeScrapeRaised ==
    /\ pipePc = "scraping" /\ scrapePc = "raised"
    /\ Raise("scrape", "Exception")
    /\ UNCHANGED <<competitorsArg, competitors, ads, batchIdx, results, sent, results_file>>
    /\ UNCHANGED <<loginVars, scrapeVars, otherVars>>

\* entry into transcribe_batch, analyze_batch, rewrite_batch or store_data
PipeBatchBegin ==
    /\ pipePc \in {"transcribe", "analyze", "rewrite", "store"} /\ batchIdx = 0
    /\ trace' = Append(trace, Ev(pipePc, "start"))
    /\ batchIdx' = 1
    /\ results' = <<>>
    /\ UNCHANGED <<pipePc, competitorsArg, competitors, ads, sent, results_file, exc,
                   pipeResult>>
    /\ UNCHANGED <<loginVars, scrapeVars, otherVars>>

\* transcribe_ad: None without a local file, the ad untouched for a file that
\* is not audio or video or when transcribe_file returned None, else the ad
\* with transcript = transcript_data['text'] (a string, possibly empty)
transcribe_ad(ad, outcome) ==
    IF ad.local_filepath = "none" THEN <<>>
    ELSE IF ad.local_filepath \notin TranscribableExts THEN <<ad>>
    ELSE IF outcome = "failed" THEN <<ad>>
    ELSE <<[ad EXCEPT !.transcript = outcome]>>

\* one iteration of transcribe_batch: `if result: results.append(result)`
TranscribeAd ==
    /\ pipePc = "transcribe" /\ batchIdx \in 1..Len(ads)
    /\ \E outcome \in {"failed", "empty", "text"} :
         LET r == transcribe_ad(ads[batchIdx], outcome) IN
           /\ results' = results \o r
           /\ ads' = IF r = <<>> THEN ads ELSE [ads EXCEPT ![batchIdx] = r[1]]
    /\ batchIdx' = batchIdx + 1
    /\ UNCHANGED <<pipePc, competitorsArg, competitors, trace, sent, results_file, exc,
                   pipeResult>>
    /\ UNCHANGED <<loginVars, scrapeVars, otherVars>>

\* transcribe_batch returned: `ads = await self.transcribe_ads(ads)`
TranscribeReturns ==
    /\ pipePc = "transcribe" /\ batchIdx > Len(ads)
    /\ ads' = results
    /\ results' = <<>>
    /\ batchIdx' = 0
    /\ trace' = Append(trace, Ev("transcribe", "return"))
    /\ pipePc' = NextStage("transcribe")
    /\ UNCHANGED <<competitorsArg, competitors, sent, results_file, exc, pipeResult>>
    /\ UNCHANGED <<loginVars, scrapeVars, otherVars>>

\* analyze_ad(ad, 'full'): untouched without a transcript or when the LLM call
\* returned nothing, else analysis['full'] and analysis_file are set
analyze_ad(ad, response) ==
    IF ad.transcript # "text" THEN ad
    ELSE IF response = "none" THEN ad
    ELSE [ad EXCEPT !.analysis = TRUE, !.analysis_file = TRUE]

\* one iteration of analyze_batch; full_analysis formats
\* ANALYSIS_PROMPTS['full_analysis'] before the call
AnalyzeAd ==
    /\ pipePc = "analyze" /\ batchIdx \in 1..Len(ads)
    /\ IF ads[batchIdx].transcript = "text" /\ "full_analysis" \notin ANALYSIS_PROMPTS
       THEN /\ Raise("analyze", "'full_analysis'")
            /\ UNCHANGED <<ads, results, batchIdx>>
       ELSE /\ \E response \in {"none", "text"} :
                 LET r == analyze_ad(ads[batchIdx], response) IN
                   /\ results' = Append(results, r)
                   /\ ads' = [ads EXCEPT ![batchIdx] = r]
            /\ batchIdx' = batchIdx + 1
            /\ UNCHANGED <<pipePc, trace, exc, pipeResult>>
    /\ UNCHANGED <<competitorsArg, competitors, sent, results_file>>
    /\ UNCHANGED <<loginVars, scrapeVars, otherVars>>

\* analyze_batch returned: notify_analysis_complete for every ad
AnalyzeReturns ==
    /\ pipePc = "analyze" /\ batchIdx > Len(ads)
    /\ ads' = results
    /\ results' = <<>>
    /\ batchIdx' = 0
    /\ sent' = sent \o Notices(Len(results), "analysis_complete")
    /\ trace' = Append(trace, Ev("analyze", "return"))
    /\ pipePc' = NextStage("analyze")
    /\ UNCHANGED <<competitorsArg, competitors, results_file, exc, pipeResult>>
    /\ UNCHANGED <<loginVars, scrapeVars, otherVars>>

\* one iteration of rewrite_batch.  rewrite_ad returns the ad untouched without
\* a transcript or when rewrite_script got no response; with a script it sets
\* rewritten_script on the ad and calls generate_hook_variations, which looks
\* up ANALYSIS_PROMPTS['hook_variations'] before anything else
RewriteAd ==
    /\ pipePc = "rewrite" /\ batchIdx \in 1..Len(ads)
    /\ LET ad == ads[batchIdx] IN
       IF ad.transcript # "text"
       THEN /\ results' = Append(results, ad)
            /\ batchIdx' = batchIdx + 1
            /\ UNCHANGED <<ads, pipePc, trace, exc, pipeResult>>
       ELSE IF "script_rewrite" \notin ANALYSIS_PROMPTS
       THEN /\ Raise("rewrite", "'script_rewrite'")
            /\ UNCHANGED <<ads, results, batchIdx>>
       ELSE \E response \in {"none", "text"} :
              IF response = "none"
              THEN /\ results' = Append(results, ad)
                   /\ batchIdx' = batchIdx + 1
                   /\ UNCHANGED <<ads, pipePc, trace, exc, pipeResult>>
              ELSE IF "hook_variations" \notin ANALYSIS_PROMPTS
              THEN /\ ads' = [ads EXCEPT ![batchIdx].rewritten_script = TRUE]
                   /\ Raise("rewrite", "'hook_variations'")
                   /\ UNCHANGED <<results, batchIdx>>
              ELSE LET r == [ad EXCEPT !.rewritten_script = TRUE, !.script_file = TRUE] IN
                   /\ results' = Append(results, r)
                   /\ ads' = [ads EXCEPT ![batchIdx] = r]
                   /\ batchIdx' = batchIdx + 1
                   /\ UNCHANGED <<pipePc, trace, exc, pipeResult>>
    /\ UNCHANGED <<competitorsArg, competitors, sent, results_file>>
    /\ UNCHANGED <<loginVars, scrapeVars, otherVars>>

\* rewrite_batch returned: notify_script_ready for every ad
RewriteReturns ==
    /\ pipePc = "rewrite" /\ batchIdx > Len(ads)
    /\ ads' = results
    /\ results' = <<>>
    /\ batchIdx' = 0
    /\ sent' = sent \o Notices(Len(results), "script_ready")
    /\ trace' = Append(trace, Ev("rewrite", "return"))
    /\ pipePc' = NextStage("rewrite")
    /\ UNCHANGED <<competitorsArg, competitors, results_file, exc, pipeResult>>
    /\ UNCHANGED <<loginVars, scrapeVars, otherVars>>

\* one iteration of store_data: add_ad, add_script, upload_all_ad_files and
\* ad.update(drive_ids); the adapters catch their own errors
StoreAd ==
    /\ pipePc = "store" /\ batchIdx \in 1..Len(ads)
    /\ \E uploaded \in BOOLEAN : ads' = [ads EXCEPT ![batchIdx].drive = uploaded]
    /\ batchIdx' = batchIdx + 1
    /\ UNCHANGED <<pipePc, competitorsArg, competitors, results, trace, sent, results_file,
                   exc, pipeResult>>
    /\ UNCHANGED <<loginVars, scrapeVars, otherVars>>

\* store_data returned
StoreReturns ==
    /\ pipePc = "store" /\ batchIdx > Len(ads)
    /\ batchIdx' = 0
    /\ trace' = Append(trace, Ev("store", "return"))
    /\ pipePc' = NextStage("store")
    /\ UNCHANGED <<competitorsArg, competitors, ads, results, sent, results_file, exc,
                   pipeResult>>
    /\ UNCHANGED <<loginVars, scrapeVars, otherVars>>

\* save_json(ads, results_file): True, or False after a caught error
PipeSaveResults ==
    /\ pipePc = "save"
    /\ \E ok \in BOOLEAN : results_file' = IF ok THEN "written" ELSE "failed"
    /\ trace' = trace \o <<Ev("save", "start"), Ev("save", "return")>>
    /\ pipePc' = NextStage("save")
    /\ UNCHANGED <<competitorsArg, competitors, ads, batchIdx, results, sent, exc, pipeResult>>
    /\ UNCHANGED <<loginVars, scrapeVars, otherVars>>

\* the summary, notify_batch_complete(summary) and `return summary`
PipeNotifyBatchComplete ==
    /\ pipePc = "notify"
    /\ sent' = Append(sent, "batch_complete")
    /\ trace' = trace \o <<Ev("notify", "start"), Ev("notify", "return")>>
    /\ pipeResult' = Summary(ads)
    /\ pipePc' = NextStage("notify")
    /\ UNCHANGED <<competitorsArg, competitors, ads, batchIdx, results, results_file, exc>>
    /\ UNCHANGED <<loginVars, scrapeVars, otherVars>>

(***************************************************************************)
(* Properties of scrape_all_competitors                                    *)
(***************************************************************************)
RECURSIVE Concat(_)
Concat(ss) == IF ss = <<>> THEN <<>> ELSE Head(ss) \o Concat(Tail(ss))

\* C7. If login fails, scrape_all_competitors returns an empty list and does
\* nothing else: no competitor search, no media download, no metadata file.
C7_LoginFailureStopsScrape ==
    loggedIn = "no" =>
        /\ scrapePc = "returned"
        /\ all_ads = <<>>
        /\ searched = <<>>
        /\ downloadLog = <<>>
        /\ metadata_file = FALSE

C7_Witness == loggedIn = "no" /\ scrapePc = "returned"

\* C8. After a successful login every ad returned by search_competitor_ads for
\* every configured competitor is in the result exactly once, in competitor
\* order then search order, whether or not its download succeeded, and an ad
\* has local_filepath exactly when download_ad_media returned a path for it.
C8_KeepsAllAds ==
    (scrapePc = "returned" /\ loggedIn = "yes") =>
        LET flat == Concat(searched) IN
        /\ Len(searched) = Len(COMPETITORS)
        /\ \A k \in 1..Len(searched) : \A j \in 1..Len(searched[k]) :
               searched[k][j].competitor = COMPETITORS[k]
        /\ Len(all_ads) = Len(flat)
        /\ Len(downloadLog) = Len(flat)
        /\ \A i \in 1..Len(all_ads) :
               /\ [all_ads[i] EXCEPT !.local_filepath = "none"] = flat[i]
               /\ all_ads[i].local_filepath = downloadLog[i]

C8_Witness ==
    /\ scrapePc = "returned" /\ loggedIn = "yes"
    /\ \E i, j \in 1..Len(all_ads) :
         /\ all_ads[i].local_filepath = "none"
         /\ all_ads[j].local_filepath # "none"
         /\ all_ads[i].competitor # all_ads[j].competitor

\* C27. A failure while searching one competitor is contained:
\* search_competitor_ads returns a list instead of raising, and
\* scrape_all_competitors goes on to every remaining configured competitor
\* and writes the metadata file.
C27_SearchFailureContained ==
    /\ scrapePc = "raised" => compIdx > Len(COMPETITORS)
    /\ scrapePc = "returned" /\ loggedIn = "yes" =>
          Len(searched) = Len(COMPETITORS) /\ metadata_file

(***************************************************************************)
(* Properties of run_full_pipeline                                         *)
(***************************************************************************)
\* C1. run_full_pipeline runs its stages strictly in the order initialize,
\* scrape, transcribe, analyze, rewrite, store, save results file,
\* batch-complete notification: a stage starts only when the one before it has
\* returned, and the batch-complete webhook goes out only after store_data and
\* save_json have returned.
C1_StagesInOrder ==
    /\ \A i \in 1..Len(trace) :
         IF trace[i].ev = "start"
         THEN IF i = 1
              THEN trace[i].stage = Stages[1]
              ELSE /\ trace[i-1].ev = "return"
                   /\ \E k \in 1..(Len(Stages) - 1) :
                        Stages[k] = trace[i-1].stage /\ Stages[k+1] = trace[i].stage
         ELSE i > 1 /\ trace[i-1] = Ev(trace[i].stage, "start")
    /\ "batch_complete" \in Range(sent) =>
         /\ Ev("store", "return") \in Range(trace)
         /\ Ev("save", "return") \in Range(trace)
         /\ results_file # "none"

C1_Witness ==
    /\ pipePc = "returned"
    /\ "batch_complete" \in Range(sent)
    /\ Len(trace) = 2 * Len(Stages)
    /\ Len(ads) >= 1

\* an ad that was scraped with a video file, transcribed to text, analysed and
\* given a script by the rewrite call
FullyProcessed(ad) ==
    /\ ad.local_filepath \in {".mp4", ".webm"}
    /\ ad.transcript = "text"
    /\ ad.analysis
    /\ ad.rewritten_script

\* C2. When an ad is scraped with a video file, transcribed to text, analysed
\* and rewritten (and no call into the environment raises), the run returns a
\* summary with status 'complete' in which that ad has rewritten_script and
\* script_file and is counted in successful, and total_ads = successful + failed.
C2_CompleteSummary ==
    (pipePc = "returned" /\ exc # "Exception"
        /\ \E i \in 1..Len(ads) : FullyProcessed(ads[i])) =>
        /\ pipeResult.status = "complete"
        /\ \A i \in 1..Len(ads) : FullyProcessed(ads[i]) => ads[i].script_file
        /\ pipeResult.successful >= 1
        /\ pipeResult.total_ads = pipeResult.successful + pipeResult.failed

\* C3. run_full_pipeline never propagates an exception: a stage that raises
\* makes it return status 'error' with the error text, and the status it
\* returns is always 'complete' or 'error'.
C3_NeverPropagates ==
    /\ pipePc # "propagated"
    /\ (\E i \in 1..Len(trace) : trace[i].ev = "raise") =>
          /\ pipePc = "returned"
          /\ exc # "none"
    /\ pipePc = "returned" =>
          /\ pipeResult.status \in {"complete", "error"}
          /\ pipeResult.status = "error" <=> exc # "none"
          /\ pipeResult.status = "error" => pipeResult.error = exc

C3_Witness ==
    /\ pipePc = "returned"
    /\ pipeResult.status = "error"
    /\ trace[Len(trace)] = Ev("store", "raise")

\* C4. When scraping yields no ads the run returns status 'complete' with
\* total_ads 0 at once: nothing is transcribed, analysed, rewritten or stored,
\* no results file is written and no batch-complete notification is sent.
C4_NoAdsReturnsAtOnce ==
    (Ev("scrape", "return") \in Range(trace) /\ all_ads = <<>>) =>
        /\ pipePc = "returned"
        /\ pipeResult.status = "complete"
        /\ pipeResult.total_ads = 0
        /\ trace[Len(trace)] = Ev("scrape", "return")
        /\ sent = <<>>
        /\ results_file = "none"
        /\ batchIdx = 0

C4_Witness ==
    /\ pipePc = "returned"
    /\ Ev("scrape", "return") \in Range(trace)
    /\ all_ads = <<>>
    /\ loggedIn = "yes"

\* C5. scrape_ads(competitors = C) scrapes the competitors of C: every ad it
\* returns belongs to a competitor in C, and the default COMPETITORS list is
\* searched only when C is None or empty.
C5_ScrapesGivenCompetitors ==
    Ev("scrape", "return") \in Range(trace) =>
        /\ \A i \in 1..Len(all_ads) :
              all_ads[i].competitor \in Range(EffectiveCompetitors(competitorsArg))
        /\ \A k \in 1..Len(searched) :
              COMPETITORS[k] \in Range(EffectiveCompetitors(competitorsArg))

(***************************************************************************)
(* The media URL resolver: one scroll iteration of _collect_ads_from_page  *)
(* (hover pass, then _get_video_url_for_ad for every video card), with the *)
(* page's "response" callback _handle_response running at every await.     *)
(***************************************************************************)
Cards == 1..MaxCards

\* kinds of media_url _extract_ad_data puts in ad_data: no URL; a URL without
\* an adfiles/m<digits> part; a URL with one that is not on cdn.tryatria.com;
\* a cdn.tryatria.com thumbnail .../adfiles/m<digits>_<hash>.jpeg
ThumbKinds == {"none", "plain", "mid_elsewhere", "atria_mid"}

\* a URL: the card whose video it is, the number in its adfiles/m<digits> part
\* (0 without one), which of the card's URLs it is
NoUrl == [card |-> 0, mid |-> 0, ver |-> 0]
Url(c, m, v) == [card |-> c, mid |-> m, ver |-> v]

\* responses a hover or click on card c can make the page receive: a video
\* from the Atria CDN, a video file from elsewhere, anything else (not a
\* video, not status 200, or a video URL without a file name)
Responses(c) ==
    {[kind |-> "video_mid", url |-> Url(c, c, v)] : v \in 1..MaxUrlVersions}
        \cup {[kind |-> "video_file", url |-> Url(c, 0, 1)],
              [kind |-> "other", url |-> Url(c, 0, 0)]}

RequestSets(c) ==
    {S \in SUBSET Responses(c) :
        /\ Cardinality(S) <= MaxRequestsPerTrigger
        /\ Cardinality(inFlight \cup S) <= MaxInFlight}

\* re.search(r'adfiles/(m\d+)', thumbnail_url) on the card's media_url
ThumbMid(c) == IF thumbnail_url \in {"mid_elsewhere", "atria_mid"} THEN c ELSE 0

\* dict operations on the insertion-ordered item list
MKey(m) == [kind |-> "m", id |-> m, ver |-> 0]
FileKey(u) == [kind |-> "file", id |-> u.card, ver |-> u.ver]
DictHas(d, k) == \E i \in 1..Len(d) : d[i].key = k
DictGet(d, k) == d[CHOOSE i \in 1..Len(d) : d[i].key = k].url
DictPut(d, k, u) ==
    IF DictHas(d, k)
    THEN [i \in 1..Len(d) |-> IF d[i].key = k THEN [key |-> k, url |-> u] ELSE d[i]]
    ELSE Append(d, [key |-> k, url |-> u])
\* list(self.captured_video_urls.values())[-1]
DictLastValue(d) == d[Len(d)].url

\* variant: Method 3 is left out
NextMethodSkipsRecheck(m) == IF m = 2 THEN 4 ELSE m + 1

\* the method _get_video_url_for_ad turns to when method m yielded nothing
NextMethod(m) == m + 1

MethodPc(m) ==
    CASE m = 1 -> "method1" [] m = 2 -> "click" [] m = 3 -> "recheck"
      [] m = 4 -> "thumbnail" [] OTHER -> "resolved"

ResolverIdle ==
    /\ rPc = "idle" /\ thumbnail_url = "none" /\ captured_video_urls = <<>>
    /\ inFlight = {} /\ lastCaptured = NoUrl /\ cardIdx = 0 /\ videos_before = 0
    /\ methodLog = <<>> /\ video_url = NoUrl

\* _handle_response: a video response with status 200 is stored under its
\* m<digits> identifier, else under its file name; anything else is dropped
HandleResponse ==
    /\ rPc \notin {"idle", "finished"}
    /\ \E r \in inFlight :
         /\ inFlight' = inFlight \ {r}
         /\ IF r.kind = "other"
            THEN UNCHANGED <<captured_video_urls, lastCaptured>>
            ELSE /\ captured_video_urls' =
                       DictPut(captured_video_urls,
                               IF r.url.mid # 0 THEN MKey(r.url.mid) ELSE FileKey(r.url),
                               r.url)
                 /\ lastCaptured' = r.url
    /\ UNCHANGED <<rPc, thumbnail_url, cardIdx, videos_before, methodLog, video_url>>
    /\ UNCHANGED coreVars

\* first pass: _trigger_video_load(card) hovers the card and clicks its play
\* element, which makes the page request the card's media
HoverCard ==
    /\ rPc = "hover" /\ cardIdx \in Cards
    /\ \E S \in RequestSets(cardIdx) : inFlight' = inFlight \cup S
    /\ cardIdx' = cardIdx + 1
    /\ UNCHANGED <<rPc, thumbnail_url, captured_video_urls, lastCaptured, videos_before, methodLog,
                   video_url>>
    /\ UNCHANGED coreVars

\* end of the first pass: asyncio.sleep(2), the second pass starts
HoverPassDone ==
    /\ rPc = "hover" /\ cardIdx > MaxCards
    /\ cardIdx' = 1
    /\ rPc' = "extract"
    /\ UNCHANGED <<thumbnail_url, captured_video_urls, inFlight, lastCaptured, videos_before,
                   methodLog, video_url>>
    /\ UNCHANGED coreVars

\* second pass: _extract_ad_data(card) reads the card's media_url; the card is
\* a video ad, so _get_video_url_for_ad is called
ExtractAdData ==
    /\ rPc = "extract" /\ cardIdx \in Cards
    /\ thumbnail_url' \in ThumbKinds
    /\ rPc' = "method1"
    /\ UNCHANGED <<captured_video_urls, inFlight, lastCaptured, cardIdx, videos_before,
                   methodLog, video_url>>
    /\ UNCHANGED coreVars

\* method m has yielded y: return it, or go on to the next method, or return
\* None after the last
Yield(m, y, via) ==
    /\ methodLog' = Append(methodLog, [m |-> m, yield |-> y, via |-> via])
    /\ IF y # NoUrl
       THEN video_url' = y /\ rPc' = "resolved"
       ELSE video_url' = NoUrl /\ rPc' = MethodPc(NextMethod(m))

\* the captured-URL lookup of Methods 1 and 3
CapturedFor(c) ==
    IF ThumbMid(c) # 0 /\ DictHas(captured_video_urls, MKey(ThumbMid(c)))
    THEN DictGet(captured_video_urls, MKey(ThumbMid(c)))
    ELSE NoUrl

\* Method 1, and on a miss the entry into _get_video_url_from_click up to its
\* first await: videos_before = len(self.captured_video_urls)
Method1Captured ==
    /\ rPc = "method1" /\ cardIdx \in Cards
    /\ Yield(1, CapturedFor(cardIdx), "captured")
    /\ videos_before' = Len(captured_video_urls)
    /\ UNCHANGED <<thumbnail_url, captured_video_urls, inFlight, lastCaptured, cardIdx>>
    /\ UNCHANGED coreVars

\* Method 2: scroll into view, hover and click a target in the card; the click
\* makes the page request the card's media; then asyncio.sleep(3)
ClickCard ==
    /\ rPc = "click"
    /\ \E S \in RequestSets(cardIdx) : inFlight' = inFlight \cup S
    /\ rPc' = "click_wait"
    /\ UNCHANGED <<thumbnail_url, captured_video_urls, lastCaptured, cardIdx, videos_before,
                   methodLog, video_url>>
    /\ UNCHANGED coreVars

\* Method 2: scrolling, hovering or clicking raises; the handler presses
\* Escape and _get_video_url_from_click returns None
ClickRaises ==
    /\ rPc = "click"
    /\ Yield(2, NoUrl, "raised")
    /\ UNCHANGED <<thumbnail_url, captured_video_urls, inFlight, lastCaptured, cardIdx,
                   videos_before>>
    /\ UNCHANGED coreVars

\* Method 2 after the sleep: `if len(self.captured_video_urls) > videos_before`
\* returns the last value of the dict, else the DOM is searched
ClickWaitOver ==
    /\ rPc = "click_wait"
    /\ IF Len(captured_video_urls) > videos_before
       THEN Yield(2, DictLastValue(captured_video_urls), "captured")
       ELSE rPc' = "dom" /\ UNCHANGED <<methodLog, video_url>>
    /\ UNCHANGED <<thumbnail_url, captured_video_urls, inFlight, lastCaptured, cardIdx,
                   videos_before>>
    /\ UNCHANGED coreVars

\* Method 2, DOM fallback: a video source in the card, else the first one on
\* the whole page (a video of any card), else Escape and None
DomLookup ==
    /\ rPc = "dom"
    /\ \E found \in {NoUrl} \cup {Url(c, 0, 1) : c \in Cards} : Yield(2, found, "dom")
    /\ UNCHANGED <<thumbnail_url, captured_video_urls, inFlight, lastCaptured, cardIdx,
                   videos_before>>
    /\ UNCHANGED coreVars

\* Method 3: the captured-URL lookup again
RecheckCaptured ==
    /\ rPc = "recheck"
    /\ Yield(3, CapturedFor(cardIdx), "captured")
    /\ UNCHANGED <<thumbnail_url, captured_video_urls, inFlight, lastCaptured, cardIdx,
                   videos_before>>
    /\ UNCHANGED coreVars

\* Method 4: _extract_video_url_from_thumbnail builds .mp4/.webm URLs from a
\* cdn.tryatria.com thumbnail with an m<digits> part and returns the one a HEAD
\* request accepted, else the first built; None for any other thumbnail
ThumbnailUrl ==
    /\ rPc = "thumbnail"
    /\ IF thumbnail_url = "atria_mid"
       THEN \E v \in 1..MaxUrlVersions : Yield(4, Url(cardIdx, cardIdx, v), "thumbnail")
       ELSE Yield(4, NoUrl, "thumbnail")
    /\ UNCHANGED <<thumbnail_url, captured_video_urls, inFlight, lastCaptured, cardIdx,
                   videos_before>>
    /\ UNCHANGED coreVars

\* _get_video_url_for_ad has returned: `if video_url: ad_data['media_url'] =
\* video_url`, the ad is appended, the loop goes to the next card
CardResolved ==
    /\ rPc = "resolved"
    /\ methodLog' = <<>>
    /\ video_url' = NoUrl
    /\ videos_before' = 0
    /\ cardIdx' = cardIdx + 1
    /\ thumbnail_url' = "none"
    /\ rPc' = IF cardIdx < MaxCards THEN "extract" ELSE "finished"
    /\ UNCHANGED <<captured_video_urls, inFlight, lastCaptured>>
    /\ UNCHANGED coreVars

\* C17: every ad in the list transcribe_batch returns has a transcript, and
\* transcribe_ad returns None whenever the transcription of the ad failed.
C17_TranscribedHaveTranscript ==
    pipePc = "transcribe" =>
        /\ \A i \in 1..Len(results) : results[i].transcript # "absent"
        /\ \A i \in 1..Len(ads) : transcribe_ad(ads[i], "failed") = <<>>

(***************************************************************************)
(* Claims about the media URL resolver                                     *)
(***************************************************************************)
LastMethod == methodLog[Len(methodLog)]

\* C9: whenever _get_video_url_for_ad returns a URL taken from the capture
\* map for a card, the URL was captured from a response triggered by that
\* card (and carries the thumbnail's m-identifier when both have one), under
\* every interleaving of _handle_response with the hover pass and the click
\* wait; the URL returned after a click is the most recently captured one.
C9_OwnVideo ==
    (rPc = "resolved" /\ video_url # NoUrl /\ LastMethod.via = "captured")
        => /\ video_url.card = cardIdx
           /\ (ThumbMid(cardIdx) # 0 /\ video_url.mid # 0)
                 => video_url.mid = ThumbMid(cardIdx)
           /\ LastMethod.m = 2 => video_url = lastCaptured

\* C10: _get_video_url_for_ad runs its methods in the order 1, 2, 3, 4, each
\* only after all earlier ones yielded nothing; it returns the yield of the
\* first method that yields a URL and runs no later method; it returns None
\* only when all four yielded nothing.
C10_MethodOrder ==
    /\ \A i \in 1..Len(methodLog) :
         /\ methodLog[i].m = i
         /\ i < Len(methodLog) => methodLog[i].yield = NoUrl
    /\ Len(methodLog) <= 4
    /\ rPc \in {"method1", "click", "recheck", "thumbnail"}
         => rPc = MethodPc(Len(methodLog) + 1)
    /\ rPc \in {"click_wait", "dom"} => Len(methodLog) = 1
    /\ rPc = "resolved"
         => /\ Len(methodLog) >= 1
            /\ video_url = LastMethod.yield
            /\ video_url = NoUrl => Len(methodLog) = 4

\* Method 3 returns a URL after Methods 1 and 2 yielded nothing
C10_Witness ==
    /\ rPc = "resolved" /\ Len(methodLog) = 3 /\ video_url # NoUrl
    /\ methodLog[1].yield = NoUrl /\ methodLog[2].yield = NoUrl

(***************************************************************************)
(* AtriaScraper._extract_video_url_from_thumbnail                          *)
(***************************************************************************)
\* kinds of thumbnail_url: empty; not on cdn.tryatria.com; on it without an
\* adfiles/m<digits> part; on it with adfiles/m<digits> but no _<hash>.jpeg
\* (jpg, png) after the digits; on it with adfiles/m<digits>_<hash>.jpeg
ThumbnailArgs == {"empty", "elsewhere", "cdn_plain", "cdn_mid", "cdn_mid_hash"}

\* the candidates in the order they are appended: Pattern 1 <base_id>.mp4,
\* Pattern 2 <m_id>.mp4, Pattern 3 <m_id>.webm
Candidates(t) ==
    (IF t = "cdn_mid_hash" THEN <<"base_id.mp4">> ELSE <<>>)
        \o (IF t \in {"cdn_mid", "cdn_mid_hash"} THEN <<"m_id.mp4", "m_id.webm">> ELSE <<>>)

\* what a HEAD request can come to: the request raises; a status other than
\* 200; 200 with a video content type; 200 with another content type and a
\* content length above 100000; 200 with neither
HeadAnswers == {"raises", "not_200", "200_video", "200_large", "200_small"}

\* `response.status == 200` and `'video' in content_type or
\* response.content_length and response.content_length > 100000`
Verified(answer) == answer \in {"200_video", "200_large"}

\* `return potential_urls[0] if potential_urls else None`
UnverifiedReturn(urls) == IF urls # <<>> THEN urls[1] ELSE "None"

ThumbIdle ==
    /\ tPc = "idle" /\ thumbnail_arg = "empty" /\ potential_urls = <<>>
    /\ headLog = <<>> /\ thumbReturn = "None"

\* `if not thumbnail_url or 'cdn.tryatria.com' not in thumbnail_url: return None`
ThumbNotAtria ==
    /\ tPc = "build" /\ thumbnail_arg \in {"empty", "elsewhere"}
    /\ thumbReturn' = "None"
    /\ tPc' = "returned"
    /\ UNCHANGED <<thumbnail_arg, potential_urls, headLog>>
    /\ UNCHANGED baseVars /\ ExtraUnchangedBut("thumb")

\* Patterns 1 to 3 fill potential_urls
ThumbBuild ==
    /\ tPc = "build" /\ thumbnail_arg \notin {"empty", "elsewhere"}
    /\ potential_urls' = Candidates(thumbnail_arg)
    /\ tPc' = "head"
    /\ UNCHANGED <<thumbnail_arg, headLog, thumbReturn>>
    /\ UNCHANGED baseVars /\ ExtraUnchangedBut("thumb")

\* one iteration of `for url in potential_urls`: a verified URL is returned,
\* any other answer goes on to the next candidate
ThumbHead ==
    /\ tPc = "head" /\ Len(headLog) < Len(potential_urls)
    /\ \E answer \in HeadAnswers :
         LET url == potential_urls[Len(headLog) + 1] IN
           /\ headLog' = Append(headLog, [url |-> url, answer |-> answer])
           /\ IF Verified(answer)
              THEN thumbReturn' = url /\ tPc' = "returned"
              ELSE UNCHANGED <<thumbReturn, tPc>>
    /\ UNCHANGED <<thumbnail_arg, potential_urls>>
    /\ UNCHANGED baseVars /\ ExtraUnchangedBut("thumb")

\* the loop is over: the first candidate is returned although nothing
\* verified it
ThumbNothingVerified ==
    /\ tPc = "head"
    /\ Len(headLog) = Len(potential_urls)
    /\ thumbReturn' = UnverifiedReturn(potential_urls)
    /\ tPc' = "returned"
    /\ UNCHANGED <<thumbnail_arg, potential_urls, headLog>>
    /\ UNCHANGED baseVars /\ ExtraUnchangedBut("thumb")

\* C11: every URL _extract_video_url_from_thumbnail returns was verified by
\* a HEAD request answering 200 with a video content type or a content length
\* above 100000; it returns None when no candidate verifies or the thumbnail
\* is not on cdn.tryatria.com.
C11_ReturnsVerifiedOrNone ==
    tPc = "returned" =>
        /\ thumbReturn # "None"
             => \E i \in 1..Len(headLog) :
                  headLog[i].url = thumbReturn /\ Verified(headLog[i].answer)
        /\ (\A i \in 1..Len(headLog) : ~ Verified(headLog[i].answer))
             => thumbReturn = "None"
        /\ thumbnail_arg \in {"empty", "elsewhere"} => thumbReturn = "None"

(***************************************************************************)
(* AtriaScraper.download_ad_media                                          *)
(***************************************************************************)
\* kinds of ad_data: no media_url; a media_url with .mp4 or .webm in it; a
\* video ad whose media_url is a cdn.tryatria.com /_images/.../plain/adfiles/
\* m<digits>_<hash>.jpeg thumbnail; a video ad with a cdn.tryatria.com
\* adfiles/m<digits> URL of another shape; a video ad with another
\* cdn.tryatria.com URL; an image on cdn.tryatria.com under /plain/adfiles/;
\* any other image URL
MediaKinds == {"none", "video_url", "video_cdn_thumbnail", "video_cdn_mid", "video_cdn_plain",
               "image_cdn_plain_path", "image_other"}

U(name, ext) == [name |-> name, ext |-> ext]
\* None as a return value, and a key the dictionary does not have
NoFile == [url |-> U("None", "None"), ext |-> "None"]
Unset == U("unset", "unset")

\* `'.mp4' in url.lower() or '.webm' in url.lower()`
UrlIsVideo(u) == u.ext \in {".mp4", ".webm"}

\* urls_to_try as the three branches append to it
UrlsFor(m) ==
    CASE m = "video_url" -> <<U("media_url", ".mp4")>>
      [] m = "video_cdn_thumbnail" ->
            <<U("base_id", ".mp4"), U("m_id", ".mp4"), U("m_id", ".webm"),
              U("direct", ".jpeg"), U("media_url", ".jpeg")>>
      [] m = "video_cdn_mid" ->
            <<U("m_id", ".mp4"), U("m_id", ".webm"), U("media_url", ".png")>>
      [] m = "video_cdn_plain" -> <<U("media_url", ".jpeg")>>
      [] m = "image_cdn_plain_path" -> <<U("direct", ".jpeg"), U("media_url", ".jpeg")>>
      [] m = "image_other" -> <<U("media_url", ".gif")>>
      [] OTHER -> <<>>

\* list(dict.fromkeys(urls_to_try))
RECURSIVE Dedupe(_)
Dedupe(l) ==
    IF l = <<>> THEN <<>>
    ELSE LET init == Dedupe(SubSeq(l, 1, Len(l) - 1)) IN
         IF l[Len(l)] \in Range(init) THEN init ELSE Append(init, l[Len(l)])

\* body sizes and content types a 200 response is given
BodySizes == {4999, 5000, 49999, 50000}
ContentTypes == {"video/mp4", "image/png", "text/html"}

\* what a GET can come to: the request or the read raises or times out, a
\* status other than 200, or 200 with a body
GetAnswers ==
    {[status |-> "raises", size |-> 0, ctype |-> "none"],
     [status |-> "not_200", size |-> 0, ctype |-> "none"]}
        \cup {[status |-> "200", size |-> n, ctype |-> c] : n \in BodySizes, c \in ContentTypes}

\* `min_file_size = 50000 if url_is_video else 5000`
MinFileSize(u) == IF UrlIsVideo(u) THEN 50000 ELSE 5000

\* variant: the size of the body is not looked at
QualifiesAnyBody(u, answer) == answer.status = "200"

\* `response.status == 200` and not `len(content) < min_file_size`
Qualifies(u, answer) == answer.status = "200" /\ ~ (answer.size < MinFileSize(u))

\* the extension chosen from the URL and the content type
ExtOf(u, ctype) ==
    IF u.ext = ".mp4" \/ ctype = "video/mp4" THEN ".mp4"
    ELSE IF u.ext = ".webm" \/ ctype = "video/webm" THEN ".webm"
    ELSE IF u.ext = ".png" \/ ctype = "image/png" THEN ".png"
    ELSE IF u.ext = ".gif" \/ ctype = "image/gif" THEN ".gif"
    ELSE ".jpg"

DownloadIdle ==
    /\ dPc = "idle" /\ media = "none" /\ urls_to_try = <<>> /\ getLog = <<>>
    /\ writeLog = <<>> /\ media_url_downloaded = Unset /\ dlReturn = NoFile

\* `if not media_url: return None`
DownloadNoMediaUrl ==
    /\ dPc = "build" /\ media = "none"
    /\ dlReturn' = NoFile
    /\ dPc' = "returned"
    /\ UNCHANGED <<media, urls_to_try, getLog, writeLog, media_url_downloaded>>
    /\ UNCHANGED baseVars /\ ExtraUnchangedBut("download")

\* the candidate list is built and its duplicates removed
DownloadBuildUrls ==
    /\ dPc = "build" /\ media # "none"
    /\ urls_to_try' = Dedupe(UrlsFor(media))
    /\ dPc' = "get"
    /\ UNCHANGED <<media, getLog, writeLog, media_url_downloaded, dlReturn>>
    /\ UNCHANGED baseVars /\ ExtraUnchangedBut("download")

\* one iteration of `for url in urls_to_try` up to the size test: a
\* candidate that does not qualify is passed over
DownloadGet ==
    /\ dPc = "get" /\ Len(getLog) < Len(urls_to_try)
    /\ \E answer \in GetAnswers :
         LET url == urls_to_try[Len(getLog) + 1] IN
           /\ getLog' = Append(getLog, [url |-> url, answer |-> answer])
           /\ dPc' = IF Qualifies(url, answer) THEN "write" ELSE "get"
    /\ UNCHANGED <<media, urls_to_try, writeLog, media_url_downloaded, dlReturn>>
    /\ UNCHANGED baseVars /\ ExtraUnchangedBut("download")

\* the body is written to RAW_ADS_DIR, media_url_downloaded is set and the
\* path returned
DownloadWrite ==
    /\ dPc = "write"
    /\ LET last == getLog[Len(getLog)] IN
         /\ writeLog' = Append(writeLog, [url |-> last.url, ok |-> TRUE])
         /\ media_url_downloaded' = last.url
         /\ dlReturn' = [url |-> last.url, ext |-> ExtOf(last.url, last.answer.ctype)]
    /\ dPc' = "returned"
    /\ UNCHANGED <<media, urls_to_try, getLog>>
    /\ UNCHANGED baseVars /\ ExtraUnchangedBut("download")

\* aiofiles.open or f.write raises: `except Exception: continue` goes on to
\* the next candidate
DownloadWriteRaises ==
    /\ dPc = "write"
    /\ writeLog' = Append(writeLog, [url |-> getLog[Len(getLog)].url, ok |-> FALSE])
    /\ dPc' = "get"
    /\ UNCHANGED <<media, urls_to_try, getLog, media_url_downloaded, dlReturn>>
    /\ UNCHANGED baseVars /\ ExtraUnchangedBut("download")

\* all URLs failed: media_url_full is set, None is returned
DownloadAllFailed ==
    /\ dPc = "get" /\ Len(getLog) = Len(urls_to_try)
    /\ dlReturn' = NoFile
    /\ dPc' = "returned"
    /\ UNCHANGED <<media, urls_to_try, getLog, writeLog, media_url_downloaded>>
    /\ UNCHANGED baseVars /\ ExtraUnchangedBut("download")

\* the candidates asked so far are the first ones of the list, each once
AskedInListOrder ==
    /\ Len(getLog) <= Len(urls_to_try)
    /\ \A i \in 1..Len(getLog) : getLog[i].url = urls_to_try[i]
    /\ \A i, j \in 1..Len(urls_to_try) : urls_to_try[i] = urls_to_try[j] => i = j

\* the i-th request answered HTTP 200 with a body of at least 50000 bytes for
\* a .mp4/.webm URL, of at least 5000 otherwise
QualifiedAt(i) ==
    /\ getLog[i].answer.status = "200"
    /\ getLog[i].answer.size >= (IF getLog[i].url.ext \in {".mp4", ".webm"} THEN 50000 ELSE 5000)
WrittenFrom(u) == \E k \in 1..Len(writeLog) : writeLog[k].url = u /\ writeLog[k].ok

\* C12 as stated: candidates are tried in list order, each distinct URL at
\* most once; the path returned is that of the file written from the first
\* candidate that answered 200 with a body of at least the minimum size, and
\* media_url_downloaded records its URL; None is returned, and no file
\* written, exactly when no candidate qualifies; with no media_url None is
\* returned without any request.
C12_FirstQualifyingCandidate ==
    /\ AskedInListOrder
    /\ dPc = "returned" =>
         /\ dlReturn # NoFile =>
              /\ QualifiedAt(Len(getLog))
              /\ \A i \in 1..(Len(getLog) - 1) : ~ QualifiedAt(i)
              /\ dlReturn.url = getLog[Len(getLog)].url
              /\ media_url_downloaded = dlReturn.url
              /\ WrittenFrom(dlReturn.url)
         /\ dlReturn = NoFile <=> \A i \in 1..Len(getLog) : ~ QualifiedAt(i)
         /\ dlReturn = NoFile => \A k \in 1..Len(writeLog) : ~ writeLog[k].ok
         /\ media = "none" => getLog = <<>> /\ dlReturn = NoFile

\* C12 amended: the same, with "the first candidate that qualifies" read as
\* the first candidate that answered 200 with a body of at least the minimum
\* size and whose file was written without an error: a qualifying candidate
\* whose write raises is passed over like one that does not qualify.
C12_FirstQualifyingWritten ==
    /\ AskedInListOrder
    /\ dPc = "returned" =>
         /\ dlReturn # NoFile =>
              /\ QualifiedAt(Len(getLog))
              /\ \A i \in 1..(Len(getLog) - 1) :
                   QualifiedAt(i) => ~ WrittenFrom(getLog[i].url)
              /\ dlReturn.url = getLog[Len(getLog)].url
              /\ media_url_downloaded = dlReturn.url
              /\ WrittenFrom(dlReturn.url)
         /\ dlReturn = NoFile
              <=> \A i \in 1..Len(getLog) : ~ (QualifiedAt(i) /\ WrittenFrom(getLog[i].url))
         /\ dlReturn = NoFile => \A k \in 1..Len(writeLog) : ~ writeLog[k].ok
         /\ media = "none" => getLog = <<>> /\ dlReturn = NoFile

\* a .mp4 candidate answered 200 with 49999 bytes and was passed over; a later
\* candidate qualified and its file is returned
C12_Witness ==
    /\ dPc = "returned" /\ dlReturn # NoFile /\ Len(getLog) >= 2
    /\ \E i \in 1..(Len(getLog) - 1) :
         /\ getLog[i].answer.status = "200" /\ getLog[i].answer.size = 49999
         /\ UrlIsVideo(getLog[i].url)
    /\ media_url_downloaded = getLog[Len(getLog)].url

(***************************************************************************)
(* _collect_ads_from_page, second pass, and _matches_filter                *)
(***************************************************************************)
\* characters: an upper-case letter, its lower-case form, another character
Chars == {"K", "k", "x"}

\* str.lower() on one character and on a string
LowerChar(c) == IF c = "K" THEN "k" ELSE c
Lower(str) == [i \in 1..Len(str) |-> LowerChar(str[i])]

Strings(n) == UNION {[1..k -> Chars] : k \in 0..n}

\* `a in b` on strings
IsSubstring(a, b) ==
    \E i \in 1..(Len(b) - Len(a) + 1) : SubSeq(b, i, i + Len(a) - 1) = a

\* competitor['filter']: None and '' are both false
NoFilter == <<>>
Filters == {NoFilter, <<"K", "k">>, <<"k", "K">>}

\* ad_data['ad_text']: card_text[:500], or None for a card without text
NoText == [present |-> FALSE, chars |-> <<>>]
AdTexts == {NoText} \cup {[present |-> TRUE, chars |-> t] : t \in Strings(MaxTextLen)}
NoAdData == [id |-> 0, ad_text |-> NoText]

\* `(ad_data.get('ad_text') or '')`
TextOrEmpty(t) == IF t.present THEN t.chars ELSE <<>>

\* variant: an ad without text passes every filter
MatchesFilterPassesNoText(ad, filter_keyword) ==
    IF filter_keyword = NoFilter \/ ~ ad.ad_text.present THEN TRUE
    ELSE IsSubstring(Lower(filter_keyword), Lower(TextOrEmpty(ad.ad_text)))

\* _matches_filter
MatchesFilter(ad, filter_keyword) ==
    IF filter_keyword = NoFilter THEN TRUE
    ELSE IsSubstring(Lower(filter_keyword), Lower(TextOrEmpty(ad.ad_text)))

CollectIdle ==
    /\ cPc = "idle" /\ filter = NoFilter /\ cardNo = 0 /\ ad_data = NoAdData
    /\ collected = <<>> /\ seen_ids = {} /\ rejected = <<>>

\* `ad_data = await self._extract_ad_data(card, competitor)` returns a dictionary
CollectExtract ==
    /\ cPc = "card" /\ cardNo \in 1..MaxFilterCards
    /\ \E id \in 1..MaxFilterCards, t \in AdTexts : ad_data' = [id |-> id, ad_text |-> t]
    /\ cPc' = "extracted"
    /\ UNCHANGED <<filter, cardNo, collected, seen_ids, rejected>>
    /\ UNCHANGED baseVars /\ ExtraUnchangedBut("collect")

\* _extract_ad_data returns None, or raises and the loop logs "Error
\* extracting ad data": the card is passed over
CollectExtractNothing ==
    /\ cPc = "card" /\ cardNo \in 1..MaxFilterCards
    /\ cardNo' = cardNo + 1
    /\ UNCHANGED <<cPc, filter, ad_data, collected, seen_ids, rejected>>
    /\ UNCHANGED baseVars /\ ExtraUnchangedBut("collect")

\* `ad_data.get('id') not in seen_ids` is false: the card is passed over
CollectSeenBefore ==
    /\ cPc = "extracted" /\ ad_data.id \in seen_ids
    /\ cardNo' = cardNo + 1
    /\ ad_data' = NoAdData
    /\ cPc' = "card"
    /\ UNCHANGED <<filter, collected, seen_ids, rejected>>
    /\ UNCHANGED baseVars /\ ExtraUnchangedBut("collect")

\* `if competitor.get('filter'): if not await self._matches_filter(...): continue`
CollectFilteredOut ==
    /\ cPc = "extracted" /\ ad_data.id \notin seen_ids
    /\ filter # NoFilter /\ ~ MatchesFilter(ad_data, filter)
    /\ rejected' = Append(rejected, ad_data)
    /\ cardNo' = cardNo + 1
    /\ ad_data' = NoAdData
    /\ cPc' = "card"
    /\ UNCHANGED <<filter, collected, seen_ids>>
    /\ UNCHANGED baseVars /\ ExtraUnchangedBut("collect")

\* the ad passes: its video URL is resolved (the resolver actions; ad_text is
\* left as it is), `ads.append(ad_data)`, `seen_ids.add(...)`
CollectAppend ==
    /\ cPc = "extracted" /\ ad_data.id \notin seen_ids
    /\ filter = NoFilter \/ MatchesFilter(ad_data, filter)
    /\ collected' = Append(collected, ad_data)
    /\ seen_ids' = seen_ids \cup {ad_data.id}
    /\ cardNo' = cardNo + 1
    /\ ad_data' = NoAdData
    /\ cPc' = "card"
    /\ UNCHANGED <<filter, rejected>>
    /\ UNCHANGED baseVars /\ ExtraUnchangedBut("collect")

\* the cards are done and the page is at its bottom: `return ads`
CollectReturn ==
    /\ cPc = "card" /\ cardNo > MaxFilterCards
    /\ cPc' = "returned"
    /\ UNCHANGED <<filter, cardNo, ad_data, collected, seen_ids, rejected>>
    /\ UNCHANGED baseVars /\ ExtraUnchangedBut("collect")

\* keyword kw occurs in text when letter case is disregarded
OccursIgnoringCase(kw, text) ==
    \E i \in 1..(Len(text) - Len(kw) + 1) :
        \A j \in 1..Len(kw) : LowerChar(text[i + j - 1]) = LowerChar(kw[j])

\* C13: for a competitor with a keyword filter every ad collected has the
\* keyword, compared case-insensitively, in its ad_text; for a competitor
\* whose filter is None the filter rejects no extracted ad.
C13_FilterKeepsMatchingAds ==
    /\ filter # NoFilter =>
         \A i \in 1..Len(collected) :
             /\ collected[i].ad_text.present
             /\ OccursIgnoringCase(filter, collected[i].ad_text.chars)
    /\ filter = NoFilter => rejected = <<>>

\* with the filter "Kk" an ad whose text holds "kK" was collected and an ad
\* without the keyword was turned down
C13_Witness ==
    /\ cPc = "returned" /\ filter = <<"K", "k">>
    /\ \E i \in 1..Len(collected) : IsSubstring(<<"k", "K">>, collected[i].ad_text.chars)
    /\ rejected # <<>>

(***************************************************************************)
(* MakeWebhookClient._send_webhook                                         *)
(***************************************************************************)
\* a URL as its parts: "http" stands for that prefix, "your_" for that
\* placeholder text, "x" for any other text
UrlParts == {"http", "your_", "x"}
WebhookUrls == UNION {[1..k -> UrlParts] : k \in 0..2}

\* url.startswith('http')
StartsWithHttp(url) == Len(url) > 0 /\ url[1] = "http"
\* 'your_' in url
HasPlaceholder(url) == \E i \in 1..Len(url) : url[i] = "your_"

\* variant: only the empty URL is skipped
NotConfiguredEmptyOnly(url) == url = <<>>

\* `not url or 'your_' in url or url.startswith('http') is False`
NotConfigured(url) == url = <<>> \/ HasPlaceholder(url) \/ ~ StartsWithHttp(url)

\* what session.post can come to: it raises (connection error, timeout), or
\* a response with a status
PostOutcomes == {"raises", "200", "204", "500"}

WebhookIdle == wPc = "idle" /\ wUrl = <<>> /\ wPosts = <<>> /\ sendLog = <<>>

Returned(ret) == sendLog' = Append(sendLog, [url |-> wUrl, posts |-> wPosts', ret |-> ret])

\* a notify_* method calls _send_webhook(url, payload)
SendWebhookCall ==
    /\ wPc = "call" /\ Len(sendLog) < MaxSends
    /\ wUrl' \in WebhookUrls
    /\ wPosts' = <<>>
    /\ wPc' = "entered"
    /\ UNCHANGED sendLog
    /\ UNCHANGED baseVars /\ ExtraUnchangedBut("webhook")

\* the URL is not configured: `return False`
SendWebhookSkipped ==
    /\ wPc = "entered" /\ NotConfigured(wUrl)
    /\ UNCHANGED <<wUrl, wPosts>>
    /\ Returned(FALSE)
    /\ wPc' = "call"
    /\ UNCHANGED baseVars /\ ExtraUnchangedBut("webhook")

\* session.post: True for status 200, False for any other status and, by the
\* handler, for an exception
SendWebhookPost ==
    /\ wPc = "entered" /\ ~ NotConfigured(wUrl)
    /\ \E outcome \in PostOutcomes :
         /\ wPosts' = Append(wPosts, outcome)
         /\ Returned(outcome = "200")
    /\ wPc' = "call"
    /\ UNCHANGED wUrl
    /\ UNCHANGED baseVars /\ ExtraUnchangedBut("webhook")

\* C14: _send_webhook never raises; with a URL that is empty, contains
\* 'your_' or does not start with 'http' it returns False without any HTTP
\* request; otherwise it issues exactly one POST and returns True if and only
\* if the response status is 200.
C14_SendWebhook ==
    /\ wPc # "raised"
    /\ \A i \in 1..Len(sendLog) :
         LET c == sendLog[i] IN
           IF \/ c.url = <<>>
              \/ \E k \in 1..Len(c.url) : c.url[k] = "your_"
              \/ c.url[1] # "http"
           THEN c.posts = <<>> /\ c.ret = FALSE
           ELSE Len(c.posts) = 1 /\ (c.ret <=> c.posts[1] = "200")

\* a call with a placeholder URL behind "http" was skipped and a call with a
\* configured URL got a status other than 200
C14_Witness ==
    /\ \E i \in 1..Len(sendLog) : sendLog[i].url = <<"http", "your_">> /\ ~ sendLog[i].ret
    /\ \E i \in 1..Len(sendLog) : sendLog[i].posts = <<"500">> /\ ~ sendLog[i].ret

(***************************************************************************)
(* create_webhook_server (the trigger endpoints) and pipeline_handler      *)
(***************************************************************************)
Endpoints == {"trigger-scrape", "trigger-analysis", "trigger-rewrite", "trigger-full-pipeline"}

\* ad_ids of a payload: not given, or a list of ids
NotGiven == {0}
AdIdLists == {NotGiven} \cup SUBSET (1..MaxPendingAds)

\* a JSON payload: its ad_ids, and whether it has an 'action' key of its own
Payloads == [ad_ids : AdIdLists, has_action : BOOLEAN]

\* the action= keyword each view passes
ActionOf(endpoint) ==
    CASE endpoint = "trigger-scrape" -> "scrape"
      [] endpoint = "trigger-analysis" -> "analyze"
      [] endpoint = "trigger-rewrite" -> "rewrite"
      [] OTHER -> "full"

\* the keyword arguments of the pipeline_handler call: trigger_full_pipeline
\* passes **data, the others the keys they name
KwargsOf(endpoint, payload) ==
    [action |-> ActionOf(endpoint),
     ad_ids |-> IF endpoint = "trigger-scrape" THEN NotGiven ELSE payload.ad_ids]

\* `pipeline_handler(action='full', **data)` with 'action' in data is a
\* TypeError; asyncio.create_task without a running loop is a RuntimeError;
\* both reach `except Exception` of the view
ViewRaises(endpoint, payload) ==
    \/ endpoint = "trigger-full-pipeline" /\ payload.has_action
    \/ ~ loopRunning

\* the engine method pipeline_handler awaits for an action
StepOf(action) ==
    CASE action = "scrape" -> "run_scrape_only"
      [] action = "analyze" -> "run_analyze_only"
      [] action = "rewrite" -> "run_rewrite_only"
      [] OTHER -> "run_full_pipeline"

\* the ads run_analyze_only / run_rewrite_only work on: pipeline_handler
\* passes kwargs.get('ads_file'), which no view sets, so the most recent
\* results file is loaded whole; ad_ids is never read
AdsProcessed(kwargs) ==
    IF kwargs.action \in {"analyze", "rewrite"} THEN pendingAds ELSE {}

ServerIdle ==
    /\ loopRunning = FALSE /\ pendingAds = {} /\ responses = <<>> /\ tasks = <<>>
    /\ runs = <<>>

\* a POST to one of the trigger endpoints: the whole view
PostTrigger ==
    /\ Len(responses) < MaxRequests
    /\ \E endpoint \in Endpoints, payload \in Payloads :
         IF ViewRaises(endpoint, payload)
         THEN /\ responses' = Append(responses, [endpoint |-> endpoint, payload |-> payload,
                                                 code |-> 500, status |-> "error"])
              /\ UNCHANGED tasks
         ELSE /\ tasks' = Append(tasks, [req |-> Len(responses) + 1,
                                         kwargs |-> KwargsOf(endpoint, payload)])
              /\ responses' = Append(responses, [endpoint |-> endpoint, payload |-> payload,
                                                 code |-> 202, status |-> "accepted"])
    /\ UNCHANGED <<loopRunning, pendingAds, runs>>
    /\ UNCHANGED baseVars /\ ExtraUnchangedBut("server")

\* the event loop runs a scheduled pipeline_handler(**kwargs)
RunPipelineHandler ==
    /\ tasks # <<>>
    /\ LET t == Head(tasks) IN
         runs' = Append(runs, [req |-> t.req, action |-> t.kwargs.action,
                               step |-> StepOf(t.kwargs.action),
                               ad_ids |-> t.kwargs.ad_ids,
                               processed |-> AdsProcessed(t.kwargs)])
    /\ tasks' = Tail(tasks)
    /\ UNCHANGED <<loopRunning, pendingAds, responses>>
    /\ UNCHANGED baseVars /\ ExtraUnchangedBut("server")

\* C15: each POST to a trigger endpoint schedules exactly one background run
\* of pipeline_handler with the endpoint's action ('scrape', 'analyze',
\* 'rewrite', 'full'), which runs the matching engine step, and the endpoint
\* answers 202 'accepted' without waiting for the run.
C15_TriggerSchedulesOneRun ==
    /\ \A i \in 1..Len(responses) :
         /\ responses[i].code = 202 /\ responses[i].status = "accepted"
         /\ Cardinality({k \in 1..Len(tasks) : tasks[k].req = i})
              + Cardinality({k \in 1..Len(runs) : runs[k].req = i}) = 1
    /\ \A k \in 1..Len(tasks) :
         tasks[k].kwargs.action = ActionOf(responses[tasks[k].req].endpoint)
    /\ \A k \in 1..Len(runs) :
         /\ runs[k].action = ActionOf(responses[runs[k].req].endpoint)
         /\ runs[k].step = StepOf(runs[k].action)

\* C16: when the payload of trigger-analysis or trigger-rewrite names ad_ids,
\* the triggered run analyses or rewrites only ads whose id is in ad_ids; all
\* pending ads are processed only when ad_ids is not specified.
C16_OnlyNamedAds ==
    \A k \in 1..Len(runs) :
        (runs[k].action \in {"analyze", "rewrite"} /\ runs[k].ad_ids # NotGiven)
            => runs[k].processed \subseteq runs[k].ad_ids

(***************************************************************************)
(* ClaudeAnalyzer.analyze_ad with any analysis_type                        *)
(***************************************************************************)
\* the analysis types the docstring names
DocumentedTypes == {"hooks", "angles", "emotional", "full", "structured"}
\* the default of the analysis_type parameter
DefaultAnalysisType == "structured"
AnalysisTypes == DocumentedTypes \cup {"other"}

\* analysis_map.get(analysis_type, self.structured_analysis), by the key of
\* ANALYSIS_PROMPTS the chosen method formats
PromptKeyFor(type) ==
    CASE type = "hooks" -> "hook_analysis"
      [] type = "angles" -> "angle_analysis"
      [] type = "emotional" -> "emotional_triggers"
      [] type = "full" -> "full_analysis"
      [] OTHER -> "structured_analysis"

\* ANALYSIS_PROMPTS[key] raises KeyError for a key the dictionary lacks
PromptLookupRaises(key) == key \notin ANALYSIS_PROMPTS

AdAnalysisIdle ==
    /\ aaPc = "idle" /\ analysis_type = DefaultAnalysisType /\ aaTranscript = "absent"
    /\ aaResponse = "unasked" /\ aaBefore = {} /\ aaAnalysis = {} /\ aaFile = FALSE
    /\ aaError = "none"

\* `if not transcript: return ad_data`
AdAnalysisNoTranscript ==
    /\ aaPc = "entered" /\ aaTranscript # "text"
    /\ aaPc' = "returned"
    /\ UNCHANGED <<analysis_type, aaBefore, aaTranscript, aaResponse, aaAnalysis, aaFile, aaError>>
    /\ UNCHANGED baseVars /\ ExtraUnchangedBut("analysis")

\* the chosen method formats its prompt: KeyError leaves analyze_ad, which
\* has no handler
AdAnalysisPrompt ==
    /\ aaPc = "entered" /\ aaTranscript = "text"
    /\ IF PromptLookupRaises(PromptKeyFor(analysis_type))
       THEN aaPc' = "raised" /\ aaError' = PromptKeyFor(analysis_type)
       ELSE aaPc' = "prompt" /\ UNCHANGED aaError
    /\ UNCHANGED <<analysis_type, aaBefore, aaTranscript, aaResponse, aaAnalysis, aaFile>>
    /\ UNCHANGED baseVars /\ ExtraUnchangedBut("analysis")

\* _call_claude_async: the response text, or None without a client or after
\* an API error
AdAnalysisCall ==
    /\ aaPc = "prompt"
    /\ aaResponse' \in {"none", "text"}
    /\ aaPc' = "called"
    /\ UNCHANGED <<analysis_type, aaBefore, aaTranscript, aaAnalysis, aaFile, aaError>>
    /\ UNCHANGED baseVars /\ ExtraUnchangedBut("analysis")

\* `if analysis_result:` the result is stored under analysis_type and the
\* analysis file written; `return ad_data`
AdAnalysisStore ==
    /\ aaPc = "called"
    /\ IF aaResponse = "text"
       THEN aaAnalysis' = aaAnalysis \cup {analysis_type} /\ aaFile' = TRUE
       ELSE UNCHANGED <<aaAnalysis, aaFile>>
    /\ aaPc' = "returned"
    /\ UNCHANGED <<analysis_type, aaBefore, aaTranscript, aaResponse, aaError>>
    /\ UNCHANGED baseVars /\ ExtraUnchangedBut("analysis")

\* aiofiles.open or f.write of the analysis file raises: the exception leaves
\* analyze_ad with analysis[analysis_type] already set
AdAnalysisWriteRaises ==
    /\ aaPc = "called" /\ aaResponse = "text"
    /\ aaAnalysis' = aaAnalysis \cup {analysis_type}
    /\ aaPc' = "raised"
    /\ aaError' = "OSError"
    /\ UNCHANGED <<analysis_type, aaBefore, aaTranscript, aaResponse, aaFile>>
    /\ UNCHANGED baseVars /\ ExtraUnchangedBut("analysis")

\* C18: for every documented analysis_type and every ad with a transcript
\* analyze_ad returns the ad without raising, with analysis[analysis_type]
\* and analysis_file set when the LLM call returned text and otherwise
\* unchanged.
C18_AnalyzeAdReturns ==
    (analysis_type \in DocumentedTypes /\ aaTranscript = "text") =>
        /\ aaPc # "raised"
        /\ aaPc = "returned" =>
             IF aaResponse = "text"
             THEN aaAnalysis = aaBefore \cup {analysis_type} /\ aaFile
             ELSE aaAnalysis = aaBefore /\ aaFile = (aaBefore # {})

(***************************************************************************)
(* GoogleDriveManager.upload_ad_media and upload_file                      *)
(***************************************************************************)
\* Drive folders as paths from the configured root folder self.folder_id
RootFolder == <<>>
NoFolder == <<"None">>
Subfolder(parent, name) == Append(parent, name)

DriveCompetitors == {"ColonBroom", "SkinnyFit", "Unknown"}
FileExts == {".mp4", ".jpg"}
DriveAds == [competitor : DriveCompetitors, has_file_path : BOOLEAN,
             file_exists : BOOLEAN, file_ext : FileExts]

\* custom_name = f"{ad_id}{file_ext}"
CustomName(ad) == <<"ad_id", ad.file_ext>>

\* _get_or_create_folder(folder_name, parent_id): the folder under
\* `parent_id or self.folder_id`, or None without a service or after an API
\* error
GetOrCreateFolder(folder_name, parent_id, ok) ==
    IF drService /\ ok
    THEN Subfolder(IF parent_id = NoFolder THEN RootFolder ELSE parent_id, folder_name)
    ELSE NoFolder

\* upload_file's target: self.folder_id, or for a folder_name the folder
\* _get_or_create_folder(folder_name) finds, else self.folder_id again;
\* upload_ad_media calls it with folder_name None
UploadParent(folder_name, found) ==
    IF folder_name # "None" /\ found # NoFolder THEN found ELSE RootFolder

DriveIdle ==
    /\ drPc = "idle"
    /\ drAd = [competitor |-> "Unknown", has_file_path |-> FALSE,
               file_exists |-> FALSE, file_ext |-> ".mp4"]
    /\ drService = FALSE /\ raw_ads_folder = NoFolder /\ competitor_folder = NoFolder
    /\ driveFiles = <<>> /\ drReturn = "None"

\* `if not file_path: return None`
UploadAdMediaNoFile ==
    /\ drPc = "entered" /\ ~ drAd.has_file_path
    /\ drReturn' = "None"
    /\ drPc' = "returned"
    /\ UNCHANGED <<drAd, drService, raw_ads_folder, competitor_folder, driveFiles>>
    /\ UNCHANGED baseVars /\ ExtraUnchangedBut("drive")

\* `raw_ads_folder = self._get_or_create_folder('Raw Ads')`
UploadAdMediaRawAds ==
    /\ drPc = "entered" /\ drAd.has_file_path
    /\ \E ok \in BOOLEAN : raw_ads_folder' = GetOrCreateFolder("Raw Ads", NoFolder, ok)
    /\ drPc' = IF raw_ads_folder' # NoFolder THEN "raw_ads" ELSE "upload"
    /\ UNCHANGED <<drAd, drService, competitor_folder, driveFiles, drReturn>>
    /\ UNCHANGED baseVars /\ ExtraUnchangedBut("drive")

\* `competitor_folder = self._get_or_create_folder(competitor, raw_ads_folder)`
UploadAdMediaCompetitor ==
    /\ drPc = "raw_ads"
    /\ \E ok \in BOOLEAN :
         competitor_folder' = GetOrCreateFolder(drAd.competitor, raw_ads_folder, ok)
    /\ drPc' = "upload"
    /\ UNCHANGED <<drAd, drService, raw_ads_folder, driveFiles, drReturn>>
    /\ UNCHANGED baseVars /\ ExtraUnchangedBut("drive")

\* upload_file(file_path, folder_name=None, custom_name=custom_name), in the
\* competitor branch and in the fallback alike: None without a service, for a
\* missing file or after an API error, else the file is created under the
\* target folder and its id returned
UploadFile ==
    /\ drPc = "upload"
    /\ \E ok \in BOOLEAN :
         IF drService /\ drAd.file_exists /\ ok
         THEN /\ driveFiles' = Append(driveFiles,
                                      [name |-> CustomName(drAd),
                                       parent |-> UploadParent("None", competitor_folder)])
              /\ drReturn' = "file_id"
         ELSE /\ UNCHANGED driveFiles
              /\ drReturn' = "None"
    /\ drPc' = "returned"
    /\ UNCHANGED <<drAd, drService, raw_ads_folder, competitor_folder>>
    /\ UNCHANGED baseVars /\ ExtraUnchangedBut("drive")

\* C19: upload_ad_media places the media file in 'Raw Ads/<competitor>'
\* whenever that folder can be found or created; the root folder receives the
\* file only as a fallback, when the competitor folder cannot be obtained.
C19_UploadsIntoCompetitorFolder ==
    \A i \in 1..Len(driveFiles) :
        /\ competitor_folder # NoFolder
             => driveFiles[i].parent = <<"Raw Ads", drAd.competitor>>
        /\ driveFiles[i].parent = RootFolder => competitor_folder = NoFolder

(***************************************************************************)
(* GoogleSheetsManager.add_ad                                              *)
(***************************************************************************)
ADS_COLUMNS ==
    << "Ad File Name / Link", "Competitor Name",
       "Platform (TikTok/FB/YouTube/Native)", "Transcript (Raw)", "Top Hooks",
       "Top Angles Used", "Pain Points", "Emotional Triggers",
       "Why This Ad Works", "Brand-Aligned Script",
       "Hook Variations (3 Options)", "Days Active", "Scraped At", "Status" >>

\* the ads handed to add_ad: absent keys are "absent", None values "None"
SheetMediaUrls == {"https://facebook.com/v.mp4", "https://tiktok.com/v.mp4",
                   "https://cdn.atria.com/v.mp4"}
SheetAds ==
    [local_filepath : {"None", "downloads/a1.mp4"},
     media_url : SheetMediaUrls,
     platform : {"absent", "Native"},
     analysis : {"absent", "None", "full"},
     rewritten_script : {"absent", "None", "dict"}]

\* `'facebook' in media_url.lower() or 'fb' in ...`, `'tiktok' in ...`,
\* `'youtube' in ...`
UrlMentions(url) ==
    CASE url = "https://facebook.com/v.mp4" -> "Facebook"
      [] url = "https://tiktok.com/v.mp4" -> "TikTok"
      [] OTHER -> "Unknown"

PlatformOf(ad) ==
    IF ad.platform = "absent" THEN UrlMentions(ad.media_url) ELSE ad.platform

\* _extract_analysis_sections: every key is present, empty without analysis
Sections(ad) ==
    IF ad.analysis = "full"
    THEN [top_hooks |-> "HOOK ...", top_angles |-> "ANGLE ...",
          pain_points |-> "... pain point ...",
          emotional_triggers |-> "EMOTIONAL ...",
          why_it_works |-> "KEY TAKEAWAY ..."]
    ELSE [top_hooks |-> "", top_angles |-> "", pain_points |-> "",
          emotional_triggers |-> "", why_it_works |-> ""]

\* analysis.get(...) on None and script_data.get(...) on None raise
\* AttributeError inside the try
RowRaises(ad) == ad.analysis = "None" \/ ad.rewritten_script = "None"

Cell(key, value) == [key |-> key, value |-> value]

\* variant: a row without the 'Days Active' cell
RowWithoutDaysActive(ad) ==
    << Cell("local_filepath or media_url",
            IF ad.local_filepath # "None" THEN ad.local_filepath ELSE ad.media_url),
       Cell("competitor", "ColonBroom"),
       Cell("platform", PlatformOf(ad)),
       Cell("transcript", "transcript[:5000]"),
       Cell("top_hooks", Sections(ad).top_hooks),
       Cell("top_angles", Sections(ad).top_angles),
       Cell("pain_points", Sections(ad).pain_points),
       Cell("emotional_triggers", Sections(ad).emotional_triggers),
       Cell("why_it_works", Sections(ad).why_it_works),
       Cell("brand_script",
            IF ad.rewritten_script = "dict" THEN "script[:3000]" ELSE ""),
       Cell("hook_variations",
            IF ad.rewritten_script = "dict" THEN "hook_variations[:2000]" ELSE ""),
       Cell("scraped_at", "2024-01-01T00:00:00"),
       Cell("status", "Processed") >>

\* `row = [...]`: the cells in the order of the list literal
Row(ad) ==
    << Cell("local_filepath or media_url",
            IF ad.local_filepath # "None" THEN ad.local_filepath ELSE ad.media_url),
       Cell("competitor", "ColonBroom"),
       Cell("platform", PlatformOf(ad)),
       Cell("transcript", "transcript[:5000]"),
       Cell("top_hooks", Sections(ad).top_hooks),
       Cell("top_angles", Sections(ad).top_angles),
       Cell("pain_points", Sections(ad).pain_points),
       Cell("emotional_triggers", Sections(ad).emotional_triggers),
       Cell("why_it_works", Sections(ad).why_it_works),
       Cell("brand_script",
            IF ad.rewritten_script = "dict" THEN "script[:3000]" ELSE ""),
       Cell("hook_variations",
            IF ad.rewritten_script = "dict" THEN "hook_variations[:2000]" ELSE ""),
       Cell("days_active", "str(days_active)"),
       Cell("scraped_at", "2024-01-01T00:00:00"),
       Cell("status", "Processed") >>

SheetsIdle ==
    /\ client = FALSE /\ spreadsheet = FALSE
    /\ sheetRows = <<>> /\ addLog = <<>>

\* _initialize_client: nothing when self.client is set; else the key file is
\* missing or authorize raises (nothing set), open_by_key raises (client
\* only), or both are set
InitializeClient ==
    IF client
    THEN UNCHANGED <<client, spreadsheet>>
    ELSE \E c, sp \in BOOLEAN :
            /\ sp => c
            /\ client' = c /\ spreadsheet' = sp

AddAdReturned(ret) ==
    addLog' = Append(addLog, [ret |-> ret, before |-> Len(sheetRows),
                              after |-> Len(sheetRows')])

\* `if not self.spreadsheet: return False`
AddAdNotInitialised ==
    /\ Len(addLog) < MaxSheetAds
    /\ InitializeClient
    /\ ~ spreadsheet'
    /\ UNCHANGED sheetRows
    /\ AddAdReturned(FALSE)
    /\ UNCHANGED baseVars /\ ExtraUnchangedBut("sheets")

\* `if not worksheet: return False`: no worksheets, or worksheets() raises
AddAdNoWorksheet ==
    /\ Len(addLog) < MaxSheetAds
    /\ InitializeClient
    /\ spreadsheet'
    /\ UNCHANGED sheetRows
    /\ AddAdReturned(FALSE)
    /\ UNCHANGED baseVars /\ ExtraUnchangedBut("sheets")

\* `except Exception: return False`: building the row raises, or append_row
\* does
AddAdRaises ==
    /\ Len(addLog) < MaxSheetAds
    /\ InitializeClient
    /\ spreadsheet'
    /\ \E ad \in SheetAds, appendRaises \in BOOLEAN :
         RowRaises(ad) \/ appendRaises
    /\ UNCHANGED sheetRows
    /\ AddAdReturned(FALSE)
    /\ UNCHANGED baseVars /\ ExtraUnchangedBut("sheets")

\* `worksheet.append_row(row); return True`
AddAdAppends ==
    /\ Len(addLog) < MaxSheetAds
    /\ InitializeClient
    /\ spreadsheet'
    /\ \E ad \in SheetAds :
         /\ ~ RowRaises(ad)
         /\ sheetRows' = Append(sheetRows, Row(ad))
    /\ AddAdReturned(TRUE)
    /\ UNCHANGED baseVars /\ ExtraUnchangedBut("sheets")

\* the ad field add_ad's row literal names for each column of ADS_COLUMNS
ColumnKey(column) ==
    CASE column = "Ad File Name / Link" -> "local_filepath or media_url"
      [] column = "Competitor Name" -> "competitor"
      [] column = "Platform (TikTok/FB/YouTube/Native)" -> "platform"
      [] column = "Transcript (Raw)" -> "transcript"
      [] column = "Top Hooks" -> "top_hooks"
      [] column = "Top Angles Used" -> "top_angles"
      [] column = "Pain Points" -> "pain_points"
      [] column = "Emotional Triggers" -> "emotional_triggers"
      [] column = "Why This Ad Works" -> "why_it_works"
      [] column = "Brand-Aligned Script" -> "brand_script"
      [] column = "Hook Variations (3 Options)" -> "hook_variations"
      [] column = "Days Active" -> "days_active"
      [] column = "Scraped At" -> "scraped_at"
      [] column = "Status" -> "status"

\* C20: every row add_ad appends has one cell per entry of ADS_COLUMNS (14),
\* in that column order, the last cell being 'Processed'; a call that returns
\* True appended exactly one row and a call that returns False appended none.
C20_RowMatchesColumns ==
    /\ \A r \in 1..Len(sheetRows) :
         /\ Len(sheetRows[r]) = Len(ADS_COLUMNS)
         /\ Len(sheetRows[r]) = 14
         /\ \A c \in 1..Len(ADS_COLUMNS) :
              sheetRows[r][c].key = ColumnKey(ADS_COLUMNS[c])
         /\ sheetRows[r][Len(sheetRows[r])].value = "Processed"
    /\ \A k \in 1..Len(addLog) :
         addLog[k].after = addLog[k].before + (IF addLog[k].ret THEN 1 ELSE 0)

\* a call that appended after a call that failed
C20_Witness ==
    /\ Len(addLog) = 2
    /\ ~ addLog[1].ret /\ addLog[2].ret
    /\ Len(sheetRows) = 1
    /\ sheetRows[1][3].value = "Facebook"

(***************************************************************************)
(* run_analyze_only and run_rewrite_only called without ads_file           *)
(***************************************************************************)
\* JSON values: a string, or an ad record
Str(name) == [kind |-> "str", id |-> 0, name |-> name]
AdRecord(id) == [kind |-> "dict", id |-> id, name |-> "ad"]

OnlySteps == {"analyze", "rewrite"}

\* the directories hold what transcribe_ad and analyze_ad write there, one
\* file per ad
StoredDirs ==
    {d \in UNION {[1..k -> 1..MaxStoredAds] : k \in 0..MaxStoredAds} :
        \A i, j \in 1..Len(d) : i # j => d[i] # d[j]}

\* what iterating the content of a per-ad file yields:
\* "<id>_transcript.json" holds json.dumps(transcript_data), a dict with the
\* keys of transcribe_file's result; "<id>_analysis.json" holds
\* json.dumps(ad_data['analysis']), a dict keyed by analysis type; iterating
\* a dict yields its keys
FileItems(step, id) ==
    IF step = "analyze"
    THEN <<Str("text"), Str("confidence")>>
    ELSE <<Str("full")>>

\* sorted(DIR.glob('*.json'), reverse=True)[0]: the greatest file name
FirstOfReverseSorted(dir) ==
    CHOOSE id \in {dir[i] : i \in 1..Len(dir)} :
        \A j \in 1..Len(dir) : dir[j] <= id

OnlyIdle ==
    /\ oPc = "idle" /\ oStep = "analyze" /\ oDir = <<>>
    /\ oAds = <<>> /\ oIdx = 0 /\ oResults = <<>>

\* `else: logger.error(...); return []`
OnlyNoResultsFile ==
    /\ oPc = "entered" /\ oDir = <<>>
    /\ oPc' = "returned"
    /\ UNCHANGED <<oStep, oDir, oAds, oIdx, oResults>>
    /\ UNCHANGED baseVars /\ ExtraUnchangedBut("only")

\* `ads = load_json(results_files[0]) or []`: load_json gives None for a
\* file that cannot be parsed
OnlyLoad ==
    /\ oPc = "entered" /\ oDir # <<>>
    /\ \E parsed \in BOOLEAN :
         oAds' = IF parsed THEN FileItems(oStep, FirstOfReverseSorted(oDir)) ELSE <<>>
    /\ oIdx' = 1
    /\ oPc' = "loaded"
    /\ UNCHANGED <<oStep, oDir, oResults>>
    /\ UNCHANGED baseVars /\ ExtraUnchangedBut("only")

\* one pass of `for i, ad in enumerate(ads)` in analyze_batch or
\* rewrite_batch: the logger line evaluates ad.get('id'), which raises
\* AttributeError for a string; analyze_ad and rewrite_ad return the record
OnlyBatchElement ==
    /\ oPc = "loaded" /\ oIdx \in 1..Len(oAds)
    /\ IF oAds[oIdx].kind = "dict"
       THEN /\ oResults' = Append(oResults, oAds[oIdx])
            /\ oIdx' = oIdx + 1
            /\ oPc' = "loaded"
       ELSE /\ oPc' = "raised"
            /\ UNCHANGED <<oResults, oIdx>>
    /\ UNCHANGED <<oStep, oDir, oAds>>
    /\ UNCHANGED baseVars /\ ExtraUnchangedBut("only")

\* `return results`
OnlyBatchReturns ==
    /\ oPc = "loaded" /\ oIdx > Len(oAds)
    /\ oPc' = "returned"
    /\ UNCHANGED <<oStep, oDir, oAds, oIdx, oResults>>
    /\ UNCHANGED baseVars /\ ExtraUnchangedBut("only")

\* C21: without ads_file, run_analyze_only and run_rewrite_only run the step
\* over the ad records of the most recent results and return one record per
\* ad; the empty list is returned only when no results file exists.
C21_RunsOverStoredAds ==
    /\ oPc # "raised"
    /\ oPc = "returned" /\ oDir # <<>> =>
          /\ oResults # <<>>
          /\ \A i \in 1..Len(oResults) : oResults[i].kind = "dict"

(***************************************************************************)
(* MediaDownloader.process_ads_file                                        *)
(***************************************************************************)
LimitArgs == {[given |-> FALSE, n |-> 0]} \cup {[given |-> TRUE, n |-> n] : n \in 0..MaxLimit}

FileAd(id) == [id |-> id, has_full_path |-> FALSE]

\* ads[:limit] for limit >= 0
SliceTo(l, n) == SubSeq(l, 1, IF n < Len(l) THEN n ELSE Len(l))

\* `if limit:` is false for None and for 0
LimitIsTruthy(limit) == limit.given /\ limit.n # 0

\* `if limit: ads = ads[:limit]`
LimitedAds(l, limit) == IF LimitIsTruthy(limit) THEN SliceTo(l, limit.n) ELSE l

MediaIdle ==
    /\ mPc = "idle" /\ mFileAds = <<>> /\ mLimit = [given |-> FALSE, n |-> 0]
    /\ mAds = <<>> /\ mIdx = 0 /\ mVisited = <<>> /\ mOutput = <<>>

\* `ads = json.load(f)`, then the limit
ProcessLoadAds ==
    /\ mPc = "entered"
    /\ mAds' = LimitedAds([i \in 1..Len(mFileAds) |-> FileAd(mFileAds[i])], mLimit)
    /\ mPc' = "login"
    /\ UNCHANGED <<mFileAds, mLimit, mIdx, mVisited, mOutput>>
    /\ UNCHANGED baseVars /\ ExtraUnchangedBut("media")

\* `if not await self.login(): return`
ProcessLoginFailed ==
    /\ mPc = "login"
    /\ mPc' = "returned"
    /\ UNCHANGED <<mFileAds, mLimit, mAds, mIdx, mVisited, mOutput>>
    /\ UNCHANGED baseVars /\ ExtraUnchangedBut("media")

ProcessLoginOk ==
    /\ mPc = "login"
    /\ mIdx' = 1
    /\ mPc' = "loop"
    /\ UNCHANGED <<mFileAds, mLimit, mAds, mVisited, mOutput>>
    /\ UNCHANGED baseVars /\ ExtraUnchangedBut("media")

\* one pass of the loop: download_ad_media(ad) opens the ad's page and gives
\* a path or None
ProcessDownloadAd ==
    /\ mPc = "loop" /\ mIdx \in 1..Len(mAds)
    /\ mVisited' = Append(mVisited, mAds[mIdx].id)
    /\ \E filepath \in BOOLEAN :
         mAds' = [mAds EXCEPT ![mIdx].has_full_path = filepath]
    /\ mIdx' = mIdx + 1
    /\ UNCHANGED <<mPc, mFileAds, mLimit, mOutput>>
    /\ UNCHANGED baseVars /\ ExtraUnchangedBut("media")

\* `json.dump(ads, f)` into ads_with_media_<time>.json
ProcessSaveOutput ==
    /\ mPc = "loop" /\ mIdx > Len(mAds)
    /\ mOutput' = <<mAds>>
    /\ mPc' = "returned"
    /\ UNCHANGED <<mFileAds, mLimit, mAds, mIdx, mVisited>>
    /\ UNCHANGED baseVars /\ ExtraUnchangedBut("media")

\* C22: process_ads_file(json_file, limit) processes at most limit ads, for
\* every integer limit >= 0, taken from the front of the file; when login
\* fails no ad page is visited and no ads_with_media file is written.
C22_AtMostLimitAds ==
    /\ mLimit.given => Len(mVisited) <= mLimit.n
    /\ Len(mVisited) <= Len(mFileAds)
    /\ \A i \in 1..Len(mVisited) : i <= Len(mFileAds) => mVisited[i] = mFileAds[i]
    /\ mPc = "returned" /\ mIdx = 0 => mVisited = <<>> /\ mOutput = <<>>

(***************************************************************************)
(* GoogleSheetsManager.update_ad_status                                    *)
(***************************************************************************)
AdIds == {"a1", "a2"}
Statuses == {"Reviewed", "Rejected"}

\* the ads add_ad is given here: local_filepath as download_ad_media sets it
StatusAds ==
    {[id |-> id,
      local_filepath |-> IF ~ downloaded THEN "None"
                         ELSE IF id = "a1" THEN "downloads/a1.mp4"
                         ELSE "downloads/a2.mp4",
      media_url |-> "https://facebook.com/v.mp4",
      platform |-> "absent", analysis |-> a, rewritten_script |-> "dict"] :
        id \in AdIds, a \in {"absent", "full"}, downloaded \in BOOLEAN}

\* worksheet.find(query): the first cell, row by row, whose value is the
\* query; <<0, 0>> for None
Find(rows, query) ==
    LET hits == {rc \in (1..Len(rows)) \X (1..Len(ADS_COLUMNS)) :
                    /\ rc[2] <= Len(rows[rc[1]])
                    /\ rows[rc[1]][rc[2]].value = query}
    IN IF hits = {} THEN <<0, 0>>
       ELSE CHOOSE rc \in hits :
               \A o \in hits : rc[1] < o[1] \/ (rc[1] = o[1] /\ rc[2] <= o[2])

\* worksheet.update_cell(row, col, value)
UpdateCell(rows, r, c, value) == [rows EXCEPT ![r][c].value = value]

StatusColumn == 14

StatusIdle == stRows = <<>> /\ stIds = <<>> /\ stLog = <<>>

\* add_ad(ad) returning True: the row is appended
StatusAddAd ==
    /\ Len(stRows) < MaxSheetAds /\ stLog = <<>>
    /\ \E ad \in StatusAds :
         /\ ad.id \notin {stIds[i] : i \in 1..Len(stIds)}
         /\ ~ RowRaises(ad)
         /\ stRows' = Append(stRows, Row(ad))
         /\ stIds' = Append(stIds, ad.id)
    /\ UNCHANGED stLog
    /\ UNCHANGED baseVars /\ ExtraUnchangedBut("status")

\* update_ad_status(ad_id, status): False without spreadsheet or worksheet
\* or after an exception; else the cell found decides
UpdateAdStatus ==
    /\ Len(stLog) < MaxStatusUpdates
    /\ \E ad_id \in AdIds, status \in Statuses, failed \in BOOLEAN :
         LET cell == Find(stRows, ad_id)
             ret == ~ failed /\ cell # <<0, 0>>
         IN /\ stRows' = IF ret THEN UpdateCell(stRows, cell[1], StatusColumn, status)
                         ELSE stRows
            /\ stLog' = Append(stLog,
                   [ad_id |-> ad_id, status |-> status, failed |-> failed,
                    added |-> ad_id \in {stIds[i] : i \in 1..Len(stIds)},
                    ret |-> ret, before |-> stRows, after |-> stRows'])
    /\ UNCHANGED stIds
    /\ UNCHANGED baseVars /\ ExtraUnchangedBut("status")

\* C23: after add_ad appended a row for an ad, update_ad_status(ad['id'],
\* status) sets the Status cell (column 14) of that ad's row to status and
\* returns True; for an ad never added it returns False and changes no cell.
C23_StatusOfAddedAdIsSet ==
    \A k \in 1..Len(stLog) :
        LET e == stLog[k] IN
        /\ e.added /\ ~ e.failed =>
              /\ e.ret
              /\ \E r \in 1..Len(stIds) :
                    stIds[r] = e.ad_id /\ e.after[r][14].value = e.status
        /\ ~ e.added => ~ e.ret /\ e.after = e.before

(***************************************************************************)
(* sanitize_filename                                                       *)
(***************************************************************************)
InvalidChars == {"<", ">", ":", "\"", "/", "\\", "|", "?", "*"}

NameLengthLimit == 200
KeptNameLength == 195

\* the filenames tried: three runs of one character each
NameChars == {"a", ".", "/", "*"}
RunLengths == {0, 1, 4, 195, 200}
Run(ch, n) == [i \in 1..n |-> ch]
Filenames ==
    {Run(c1, n1) \o Run(c2, n2) \o Run(c3, n3) :
        c1 \in {"a", "/"}, c2 \in {".", "*"}, c3 \in {"a", "."},
        n1 \in RunLengths, n2 \in {0, 1}, n3 \in RunLengths}

\* text[:k] for any integer k
PrefixSlice(l, k) ==
    IF k >= 0 THEN SubSeq(l, 1, IF k < Len(l) THEN k ELSE Len(l))
    ELSE SubSeq(l, 1, IF Len(l) + k > 0 THEN Len(l) + k ELSE 0)

\* `for char in invalid_chars: filename = filename.replace(char, '_')`
ReplaceInvalid(s) == [i \in 1..Len(s) |-> IF s[i] \in InvalidChars THEN "_" ELSE s[i]]

HasDot(s) == \E i \in 1..Len(s) : s[i] = "."
LastDot(s) == CHOOSE i \in 1..Len(s) : s[i] = "." /\ \A j \in (i + 1)..Len(s) : s[j] # "."

\* `name, ext = filename.rsplit('.', 1) if '.' in filename else (filename, '')`
RsplitName(s) == IF HasDot(s) THEN SubSeq(s, 1, LastDot(s) - 1) ELSE s
RsplitExt(s) == IF HasDot(s) THEN SubSeq(s, LastDot(s) + 1, Len(s)) ELSE <<>>

\* `filename = name[:195] + ('.' + ext if ext else '')` when longer than 200
LimitLength(s) ==
    IF Len(s) > NameLengthLimit
    THEN PrefixSlice(RsplitName(s), KeptNameLength)
         \o (IF RsplitExt(s) # <<>> THEN <<".">> \o RsplitExt(s) ELSE <<>>)
    ELSE s

sanitize_filename(filename) == LimitLength(ReplaceInvalid(filename))

SanitizeIdle == sfPc = "idle" /\ sfInput = <<>> /\ sfOnce = <<>> /\ sfTwice = <<>>

SanitizeOnce ==
    /\ sfPc = "given"
    /\ sfOnce' = sanitize_filename(sfInput)
    /\ sfPc' = "once"
    /\ UNCHANGED <<sfInput, sfTwice>>
    /\ UNCHANGED baseVars /\ ExtraUnchangedBut("sanitize")

SanitizeTwice ==
    /\ sfPc = "once"
    /\ sfTwice' = sanitize_filename(sfOnce)
    /\ sfPc' = "twice"
    /\ UNCHANGED <<sfInput, sfOnce>>
    /\ UNCHANGED baseVars /\ ExtraUnchangedBut("sanitize")

\* C24: for every input string sanitize_filename returns a name without any
\* of the characters < > : " / \ | ? * and of at most 200 characters, and
\* applying it twice gives what applying it once gives.
C24_SanitizedName ==
    /\ sfPc \in {"once", "twice"} =>
          /\ \A i \in 1..Len(sfOnce) :
                sfOnce[i] \notin {"<", ">", ":", "\"", "/", "\\", "|", "?", "*"}
          /\ Len(sfOnce) <= 200
    /\ sfPc = "twice" => sfTwice = sfOnce

(***************************************************************************)
(* truncate_text                                                           *)
(***************************************************************************)
TruncTexts == UNION {[1..k -> {"a", "b"}] : k \in 0..MaxTruncText}
TruncSuffixes == {Run(".", k) : k \in 0..MaxTruncSuffix}

\* variant: the suffix is appended to max_length characters of the text
truncate_text_after_max(text, max_length, suffix) ==
    IF Len(text) <= max_length THEN text
    ELSE PrefixSlice(text, max_length) \o suffix

\* `if len(text) <= max_length: return text`
\* `return text[:max_length - len(suffix)] + suffix`
truncate_text(text, max_length, suffix) ==
    IF Len(text) <= max_length THEN text
    ELSE PrefixSlice(text, max_length - Len(suffix)) \o suffix

TruncateIdle ==
    /\ ttPc = "idle" /\ ttText = <<>> /\ ttMaxLength = 0
    /\ ttSuffix = <<>> /\ ttResult = <<>>

TruncateText ==
    /\ ttPc = "given"
    /\ ttResult' = truncate_text(ttText, ttMaxLength, ttSuffix)
    /\ ttPc' = "returned"
    /\ UNCHANGED <<ttText, ttMaxLength, ttSuffix>>
    /\ UNCHANGED baseVars /\ ExtraUnchangedBut("truncate")

EndsWith(s, suffix) ==
    /\ Len(suffix) <= Len(s)
    /\ SubSeq(s, Len(s) - Len(suffix) + 1, Len(s)) = suffix

PageAdIds == 1..MaxPageAds

\* what query_selector_all can give: any cards, the same ad more than once
CardLists == UNION {[1..k -> PageAdIds] : k \in 0..MaxVisibleCards}

\* _extract_ad_data gives the ad or None, the filter may reject it, or the
\* pass raises
ExtractOutcomes == {"ad", "none", "filtered", "raises"}

\* variant: every ad counts as not seen
NotSeenEver(ad_id, seen) == ad_id = ad_id

\* `ad_data.get('id') not in seen_ids`
NotSeen(ad_id, seen) == ad_id \notin seen

\* `for scroll_count in range(max_scroll)` has another value
RangeHasNext(count, n) == count + 1 < n

ScrollIdle ==
    /\ scPc = "idle" /\ max_scroll = 0 /\ scroll_count = 0 /\ ad_cards = <<>>
    /\ scCard = 0 /\ scAds = <<>> /\ scSeen = {} /\ bottomLog = <<>>

\* range(max_scroll) is empty: `return ads`
ScrollNoIteration ==
    /\ scPc = "find" /\ ~ (scroll_count < max_scroll)
    /\ scPc' = "returned"
    /\ UNCHANGED <<max_scroll, scroll_count, ad_cards, scCard, scAds, scSeen, bottomLog>>
    /\ UNCHANGED baseVars /\ ExtraUnchangedBut("scroll")

\* the selectors are tried and the cards hovered
ScrollFindCards ==
    /\ scPc = "find" /\ scroll_count < max_scroll
    /\ ad_cards' \in CardLists
    /\ scCard' = 1
    /\ scPc' = "extract"
    /\ UNCHANGED <<max_scroll, scroll_count, scAds, scSeen, bottomLog>>
    /\ UNCHANGED baseVars /\ ExtraUnchangedBut("scroll")

\* page.inner_text('body') in the first iteration raises
ScrollPageTextRaises ==
    /\ scPc = "find" /\ scroll_count = 0 /\ scroll_count < max_scroll
    /\ scPc' = "raised"
    /\ UNCHANGED <<max_scroll, scroll_count, ad_cards, scCard, scAds, scSeen, bottomLog>>
    /\ UNCHANGED baseVars /\ ExtraUnchangedBut("scroll")

\* one card of the second pass
ScrollExtractCard ==
    /\ scPc = "extract" /\ scCard \in 1..Len(ad_cards)
    /\ \E outcome \in ExtractOutcomes :
         IF outcome = "ad" /\ NotSeen(ad_cards[scCard], scSeen)
         THEN /\ scAds' = Append(scAds, ad_cards[scCard])
              /\ scSeen' = scSeen \cup {ad_cards[scCard]}
         ELSE UNCHANGED <<scAds, scSeen>>
    /\ scCard' = scCard + 1
    /\ UNCHANGED <<scPc, max_scroll, scroll_count, ad_cards, bottomLog>>
    /\ UNCHANGED baseVars /\ ExtraUnchangedBut("scroll")

\* the second pass is over: the page is scrolled
ScrollPassDone ==
    /\ scPc = "extract" /\ scCard > Len(ad_cards)
    /\ scPc' = "scroll"
    /\ UNCHANGED <<max_scroll, scroll_count, ad_cards, scCard, scAds, scSeen, bottomLog>>
    /\ UNCHANGED baseVars /\ ExtraUnchangedBut("scroll")

\* `if is_at_bottom: break`, else the next value of the range, if any
ScrollDown ==
    /\ scPc = "scroll"
    /\ \E is_at_bottom \in BOOLEAN :
         /\ bottomLog' = Append(bottomLog, is_at_bottom)
         /\ IF is_at_bottom \/ ~ RangeHasNext(scroll_count, max_scroll)
            THEN scPc' = "returned" /\ UNCHANGED scroll_count
            ELSE scPc' = "find" /\ scroll_count' = scroll_count + 1
    /\ UNCHANGED <<max_scroll, ad_cards, scCard, scAds, scSeen>>
    /\ UNCHANGED baseVars /\ ExtraUnchangedBut("scroll")

\* page.evaluate raises
ScrollEvaluateRaises ==
    /\ scPc = "scroll"
    /\ scPc' = "raised"
    /\ UNCHANGED <<max_scroll, scroll_count, ad_cards, scCard, scAds, scSeen, bottomLog>>
    /\ UNCHANGED baseVars /\ ExtraUnchangedBut("scroll")

\* C26: _collect_ads_from_page makes at most max_scroll scroll iterations
\* and stops at the first one that ends at the bottom of the page, and the
\* list it returns never holds two ads with the same id, however often a
\* card is seen again.
C26_BoundedScrollDistinctIds ==
    /\ Len(bottomLog) <= max_scroll
    /\ \A k \in 1..Len(bottomLog) : bottomLog[k] => k = Len(bottomLog)
    /\ bottomLog # <<>> /\ bottomLog[Len(bottomLog)] => scPc = "returned"
    /\ scPc = "returned" =>
          \/ Len(bottomLog) = max_scroll
          \/ bottomLog # <<>> /\ bottomLog[Len(bottomLog)]
    /\ \A i, j \in 1..Len(scAds) : i # j => scAds[i] # scAds[j]

\* the same ad seen in two scrolls, returned once, before max_scroll is used up
C26_Witness ==
    /\ scPc = "returned"
    /\ Len(bottomLog) = 2 /\ Len(bottomLog) < max_scroll
    /\ scAds = <<1>>
    /\ ad_cards = <<1, 1>>

\* the functions modelled on their own are idle, but for the one named
ExtraIdleBut(g) ==
    /\ IF g = "thumb" THEN TRUE ELSE ThumbIdle
    /\ IF g = "download" THEN TRUE ELSE DownloadIdle
    /\ IF g = "collect" THEN TRUE ELSE CollectIdle
    /\ IF g = "webhook" THEN TRUE ELSE WebhookIdle
    /\ IF g = "server" THEN TRUE ELSE ServerIdle
    /\ IF g = "analysis" THEN TRUE ELSE AdAnalysisIdle
    /\ IF g = "drive" THEN TRUE ELSE DriveIdle
    /\ IF g = "sheets" THEN TRUE ELSE SheetsIdle
    /\ IF g = "only" THEN TRUE ELSE OnlyIdle
    /\ IF g = "media" THEN TRUE ELSE MediaIdle
    /\ IF g = "status" THEN TRUE ELSE StatusIdle
    /\ IF g = "sanitize" THEN TRUE ELSE SanitizeIdle
    /\ IF g = "truncate" THEN TRUE ELSE TruncateIdle
    /\ IF g = "scroll" THEN TRUE ELSE ScrollIdle

BaseIdle == LoginIdle /\ ScrapeIdle /\ PipeIdle /\ ResolverIdle

\* login(max_retries = n) called on its own
InitLogin ==
    /\ \E n \in 0..MaxRetriesArg :
         /\ loginPc = "loop" /\ max_retries = n
    /\ attempt = 0 /\ loginHist = <<>> /\ loginSleeps = <<>> /\ loginResult = "none"
    /\ ScrapeIdle
    /\ PipeIdle
    /\ ResolverIdle
    /\ ExtraIdleBut("none")

NextLogin ==
    \/ LoginSucceeds
    \/ LoginCookiesRaise
    \/ LoginStillOnLoginPage
    \/ LoginTimeout
    \/ LoginException
    \/ LoginRetrySleep
    \/ LoginAllFailed

SpecLogin == InitLogin /\ [][NextLogin]_vars

\* scrape_all_competitors() called on a fresh scraper
InitScrape ==
    /\ LoginIdle
    /\ scrapePc = "start" /\ loggedIn = "unknown" /\ compIdx = 0 /\ curAds = <<>> /\ adIdx = 0
    /\ all_ads = <<>> /\ searched = <<>> /\ downloadLog = <<>> /\ metadata_file = FALSE
    /\ PipeIdle
    /\ ResolverIdle
    /\ ExtraIdleBut("none")

NextScrape ==
    \/ NextLogin
    \/ ScrapeCallLogin
    \/ ScrapeLoginFailed
    \/ ScrapeLoginOk
    \/ SearchCompetitorAds
    \/ SearchCompetitorAdsRaises
    \/ DownloadAdMedia
    \/ NextCompetitor
    \/ SaveScrapeMetadata
    \/ SaveScrapeMetadataRaises

SpecScrape == InitScrape /\ [][NextScrape]_vars

\* arguments run_full_pipeline is called with: None, [], a sublist of the
\* configured competitors, another competitor
CompetitorArgs ==
    {[given |-> FALSE, list |-> <<>>], [given |-> TRUE, list |-> <<>>],
     [given |-> TRUE, list |-> <<"SkinnyFit">>],
     [given |-> TRUE, list |-> <<"HillsPet">>]}

\* run_full_pipeline(competitors) called on a fresh engine
InitPipeline ==
    /\ LoginIdle
    /\ ScrapeIdle
    /\ pipePc = "initialize" /\ competitorsArg \in CompetitorArgs
    /\ competitors = <<>> /\ ads = <<>> /\ batchIdx = 0 /\ results = <<>>
    /\ trace = <<>> /\ sent = <<>> /\ results_file = "none" /\ exc = "none"
    /\ pipeResult = [status |-> "none", total_ads |-> 0, successful |-> 0, failed |-> 0,
                     error |-> "none"]
    /\ ResolverIdle
    /\ ExtraIdleBut("none")

NextPipeline ==
    \/ NextScrape
    \/ PipeInitialize
    \/ PipeStageRaises
    \/ PipeScrapeAds
    \/ PipeScrapeReturns
    \/ PipeScrapeRaised
    \/ PipeBatchBegin
    \/ TranscribeAd
    \/ TranscribeReturns
    \/ AnalyzeAd
    \/ AnalyzeReturns
    \/ RewriteAd
    \/ RewriteReturns
    \/ StoreAd
    \/ StoreReturns
    \/ PipeSaveResults
    \/ PipeNotifyBatchComplete

SpecPipeline == InitPipeline /\ [][NextPipeline]_vars

\* _collect_ads_from_page has cleared captured_video_urls and found the cards
InitResolver ==
    /\ LoginIdle /\ ScrapeIdle /\ PipeIdle
    /\ rPc = "hover" /\ thumbnail_url = "none" /\ captured_video_urls = <<>>
    /\ inFlight = {} /\ lastCaptured = NoUrl /\ cardIdx = 1 /\ videos_before = 0
    /\ methodLog = <<>> /\ video_url = NoUrl
    /\ ExtraIdleBut("none")

NextResolver ==
    \/ HandleResponse
    \/ HoverCard
    \/ HoverPassDone
    \/ ExtractAdData
    \/ Method1Captured
    \/ ClickCard
    \/ ClickRaises
    \/ ClickWaitOver
    \/ DomLookup
    \/ RecheckCaptured
    \/ ThumbnailUrl
    \/ CardResolved

SpecResolver == InitResolver /\ [][NextResolver]_vars

\* _extract_video_url_from_thumbnail called with a thumbnail of any kind
InitThumbnail ==
    /\ BaseIdle /\ ExtraIdleBut("thumb")
    /\ tPc = "build" /\ thumbnail_arg \in ThumbnailArgs /\ potential_urls = <<>>
    /\ headLog = <<>> /\ thumbReturn = "None"

NextThumbnail ==
    \/ ThumbNotAtria
    \/ ThumbBuild
    \/ ThumbHead
    \/ ThumbNothingVerified

SpecThumbnail == InitThumbnail /\ [][NextThumbnail]_vars

\* download_ad_media called with an ad of any kind
InitDownload ==
    /\ BaseIdle /\ ExtraIdleBut("download")
    /\ dPc = "build" /\ media \in MediaKinds /\ urls_to_try = <<>> /\ getLog = <<>>
    /\ writeLog = <<>> /\ media_url_downloaded = Unset /\ dlReturn = NoFile

NextDownload ==
    \/ DownloadNoMediaUrl
    \/ DownloadBuildUrls
    \/ DownloadGet
    \/ DownloadWrite
    \/ DownloadWriteRaises
    \/ DownloadAllFailed

SpecDownload == InitDownload /\ [][NextDownload]_vars

\* the second pass for a competitor with any filter
InitCollect ==
    /\ BaseIdle /\ ExtraIdleBut("collect")
    /\ cPc = "card" /\ filter \in Filters /\ cardNo = 1 /\ ad_data = NoAdData
    /\ collected = <<>> /\ seen_ids = {} /\ rejected = <<>>

NextCollect ==
    \/ CollectExtract
    \/ CollectExtractNothing
    \/ CollectSeenBefore
    \/ CollectFilteredOut
    \/ CollectAppend
    \/ CollectReturn

SpecCollect == InitCollect /\ [][NextCollect]_vars

\* _send_webhook called MaxSends times with any URLs
InitWebhook ==
    /\ BaseIdle /\ ExtraIdleBut("webhook")
    /\ wPc = "call" /\ wUrl = <<>> /\ wPosts = <<>> /\ sendLog = <<>>

NextWebhook ==
    \/ SendWebhookCall
    \/ SendWebhookSkipped
    \/ SendWebhookPost

SpecWebhook == InitWebhook /\ [][NextWebhook]_vars

\* the server with or without an event loop running in the serving thread
InitServer ==
    /\ BaseIdle /\ ExtraIdleBut("server")
    /\ loopRunning \in BOOLEAN /\ pendingAds \in SUBSET (1..MaxPendingAds)
    /\ responses = <<>> /\ tasks = <<>> /\ runs = <<>>

NextServer ==
    \/ PostTrigger
    \/ RunPipelineHandler

SpecServer == InitServer /\ [][NextServer]_vars

\* analyze_ad called with any analysis_type on an ad with or without earlier
\* analyses
InitAdAnalysis ==
    /\ BaseIdle /\ ExtraIdleBut("analysis")
    /\ aaPc = "entered" /\ analysis_type \in AnalysisTypes
    /\ aaTranscript \in {"absent", "empty", "text"}
    /\ aaResponse = "unasked" /\ aaBefore \in SUBSET {"hooks", "full"}
    /\ aaAnalysis = aaBefore /\ aaFile = (aaBefore # {}) /\ aaError = "none"

NextAdAnalysis ==
    \/ AdAnalysisNoTranscript
    \/ AdAnalysisPrompt
    \/ AdAnalysisCall
    \/ AdAnalysisStore
    \/ AdAnalysisWriteRaises

SpecAdAnalysis == InitAdAnalysis /\ [][NextAdAnalysis]_vars

\* upload_ad_media called on any ad, with or without a Drive service
InitDrive ==
    /\ BaseIdle /\ ExtraIdleBut("drive")
    /\ drPc = "entered" /\ drAd \in DriveAds /\ drService \in BOOLEAN
    /\ raw_ads_folder = NoFolder /\ competitor_folder = NoFolder
    /\ driveFiles = <<>> /\ drReturn = "None"

NextDrive ==
    \/ UploadAdMediaNoFile
    \/ UploadAdMediaRawAds
    \/ UploadAdMediaCompetitor
    \/ UploadFile

SpecDrive == InitDrive /\ [][NextDrive]_vars

\* a fresh GoogleSheetsManager on which add_ad is called
InitSheets ==
    /\ BaseIdle /\ ExtraIdleBut("sheets")
    /\ client = FALSE /\ spreadsheet = FALSE
    /\ sheetRows = <<>> /\ addLog = <<>>

NextSheets ==
    \/ AddAdNotInitialised
    \/ AddAdNoWorksheet
    \/ AddAdRaises
    \/ AddAdAppends

SpecSheets == InitSheets /\ [][NextSheets]_vars

\* run_analyze_only() or run_rewrite_only() over a results directory
InitOnly ==
    /\ BaseIdle /\ ExtraIdleBut("only")
    /\ oPc = "entered" /\ oStep \in OnlySteps /\ oDir \in StoredDirs
    /\ oAds = <<>> /\ oIdx = 0 /\ oResults = <<>>

NextOnly ==
    \/ OnlyNoResultsFile
    \/ OnlyLoad
    \/ OnlyBatchElement
    \/ OnlyBatchReturns

SpecOnly == InitOnly /\ [][NextOnly]_vars

\* process_ads_file on any file and limit
InitMedia ==
    /\ BaseIdle /\ ExtraIdleBut("media")
    /\ mPc = "entered"
    /\ \E n \in 0..MaxFileAds : mFileAds = [i \in 1..n |-> i]
    /\ mLimit \in LimitArgs
    /\ mAds = <<>> /\ mIdx = 0 /\ mVisited = <<>> /\ mOutput = <<>>

NextMedia ==
    \/ ProcessLoadAds
    \/ ProcessLoginFailed
    \/ ProcessLoginOk
    \/ ProcessDownloadAd
    \/ ProcessSaveOutput

SpecMedia == InitMedia /\ [][NextMedia]_vars

\* add_ad calls followed by update_ad_status calls on an empty worksheet
InitStatus ==
    /\ BaseIdle /\ ExtraIdleBut("status")
    /\ stRows = <<>> /\ stIds = <<>> /\ stLog = <<>>

NextStatus ==
    \/ StatusAddAd
    \/ UpdateAdStatus

SpecStatus == InitStatus /\ [][NextStatus]_vars

\* sanitize_filename applied once and again to any of the filenames
InitSanitize ==
    /\ BaseIdle /\ ExtraIdleBut("sanitize")
    /\ sfPc = "given" /\ sfInput \in Filenames
    /\ sfOnce = <<>> /\ sfTwice = <<>>

NextSanitize ==
    \/ SanitizeOnce
    \/ SanitizeTwice

SpecSanitize == InitSanitize /\ [][NextSanitize]_vars

\* truncate_text on any text, max_length and suffix
InitTruncate ==
    /\ BaseIdle /\ ExtraIdleBut("truncate")
    /\ ttPc = "given"
    /\ ttText \in TruncTexts
    /\ ttMaxLength \in 0..MaxTruncLength
    /\ ttSuffix \in TruncSuffixes
    /\ ttResult = <<>>

NextTruncate ==
    \/ TruncateText

SpecTruncate == InitTruncate /\ [][NextTruncate]_vars

\* _collect_ads_from_page with any max_scroll
InitScroll ==
    /\ BaseIdle /\ ExtraIdleBut("scroll")
    /\ scPc = "find" /\ max_scroll \in 0..MaxScrollArg /\ scroll_count = 0
    /\ ad_cards = <<>> /\ scCard = 0 /\ scAds = <<>> /\ scSeen = {} /\ bottomLog = <<>>

NextScroll ==
    \/ ScrollNoIteration
    \/ ScrollFindCards
    \/ ScrollPageTextRaises
    \/ ScrollExtractCard
    \/ ScrollPassDone
    \/ ScrollDown
    \/ ScrollEvaluateRaises

SpecScroll == InitScroll /\ [][NextScroll]_vars

====
